---- MODULE Spec2Model ----
(***************************************************************************)
(* Model of the elgato_keylight effect sequencer (effects.py) running on   *)
(* the asyncio event loop against a set of Key Light devices (client.py).  *)
(* A device holds one LightState; a client request is issued, is in        *)
(* flight, and completes (successfully or not) in a later step.            *)
(***************************************************************************)
EXTENDS Integers, Sequences, FiniteSets, TLC

\* ---------------------------------------------------------------- bounds
NumLights == 2          \* configured lights, in configuration order 1..NumLights
MaxTimes == 2           \* flash(times) and alert(flashes) range over 0..MaxTimes
MaxCycles == 1          \* pulse(cycles) ranges over 0..MaxCycles
MaxDimSteps == 2        \* dim_slowly(steps) ranges over 0..MaxDimSteps
MaxLines == 3           \* avahi-browse prints at most MaxLines lines
MaxConfigured == 3      \* a front end is given at most MaxConfigured lights

Lights == 1..NumLights

\* ---------------------------------------------------------------- models.py
\* LightState(on, brightness, temperature) with the dataclass defaults.
LightState(on, brightness, temperature) ==
    [on |-> on, brightness |-> brightness, temperature |-> temperature]

DefaultBrightness == 50
DefaultTemperature == 200

\* LightState(on=False): the fields not given take the dataclass defaults.
OffState == LightState(FALSE, DefaultBrightness, DefaultTemperature)

\* LightState.to_api: the wire format encodes on as 0/1.
ToApi(state) ==
    [on |-> IF state.on THEN 1 ELSE 0,
     brightness |-> state.brightness,
     temperature |-> state.temperature]

\* LightState.from_api: bool(data["on"]); the device always sends all three keys.
FromApi(data) == LightState(data.on # 0, data.brightness, data.temperature)

\* Wire-format states a device can hold when an effect is invoked.
InitStates ==
    { [on |-> 1, brightness |-> 40, temperature |-> 290],
      [on |-> 0, brightness |-> 2, temperature |-> 180] }

\* ---------------------------------------------------------------- helpers
Max(a, b) == IF a >= b THEN a ELSE b

\* Python int(): truncation toward zero of the quotient num / den (den > 0).
TruncDiv(num, den) ==
    IF num >= 0 THEN num \div den ELSE -((-num) \div den)

\* range(lo, hi, st) for st > 0, as a sequence.
RangeUp(lo, hi, st) ==
    [i \in 1..(IF hi > lo THEN (hi - lo + st - 1) \div st ELSE 0) |-> lo + (i - 1) * st]

\* range(hi, lo, -st) for st > 0, as a sequence.
RangeDown(hi, lo, st) ==
    [i \in 1..(IF hi > lo THEN (hi - lo + st - 1) \div st ELSE 0) |-> hi - (i - 1) * st]

Reversed(s) == [i \in 1..Len(s) |-> s[Len(s) + 1 - i]]

\* ---------------------------------------------------------------- effects.py
\* The states each effect broadcasts, one per _set_all call, given as the
\* states of one pass of its outer loop and the number of passes.

FlashOnOffMutant(onState) == <<OffState, onState>>
\* One iteration of the flash/alert loop body: on, then off.
FlashOnOff(onState) == <<onState, OffState>>

PulseCycleMutant ==
    [i \in 1..19 |-> LightState(TRUE, RangeUp(10, 101, 5)[i], 200)]
    \o [i \in 1..18 |-> LightState(TRUE, RangeDown(100, 10, 5)[i], 200)]
\* One pass of pulse's outer loop: ramp up 10..100, then down 100..10.
PulseCycle ==
    [i \in 1..19 |-> LightState(TRUE, RangeUp(10, 101, 5)[i], 200)]
    \o [i \in 1..19 |-> LightState(TRUE, RangeDown(100, 9, 5)[i], 200)]

CelebrationTemps == <<143, 200, 250, 300, 344>>

CelebrationRounds == 3

\* One pass of celebration's outer loop: the sweep forward, then reversed.
CelebrationSweep ==
    [i \in 1..5 |-> LightState(TRUE, 80, CelebrationTemps[i])]
    \o [i \in 1..5 |-> LightState(TRUE, 80, Reversed(CelebrationTemps)[i])]

\* b = int(start + (target - start) * (i / steps)), for steps >= 1.
DimBrightness(start, target, steps, i) ==
    TruncDiv(start * steps + (target - start) * i, steps)

DimStepsMutant(sv, target, steps) ==
    [k \in 1..(steps + 1) |->
        LightState(TRUE, DimBrightness(sv[1].brightness, target, steps, k - 1),
                   sv[1].temperature)]
\* dim_slowly's broadcasts for a non-empty snapshot sv and steps >= 1.
DimSteps(sv, target, steps) ==
    [k \in 1..(steps + 1) |->
        LightState(TRUE,
                   Max(3, DimBrightness(sv[1].brightness, target, steps, k - 1)),
                   sv[1].temperature)]

MoodNames == {"cozy", "focus", "relax", "energize", "movie"}

Moods ==
    [m \in MoodNames |->
        CASE m = "cozy" -> LightState(TRUE, 25, 320)
          [] m = "focus" -> LightState(TRUE, 70, 200)
          [] m = "relax" -> LightState(TRUE, 30, 280)
          [] m = "energize" -> LightState(TRUE, 90, 160)
          [] m = "movie" -> LightState(TRUE, 10, 300)]

\* list_moods(): the names the front-ends accept.
ListMoods == <<"cozy", "focus", "relax", "energize", "movie">>

\* ---------------------------------------------------------------- state
VARIABLES
    device,     \* [Lights -> wire state]: what each lamp currently holds
    lights,     \* the list of targeted lights handed to the effect
    call,       \* the effect invoked and its arguments
    pc,         \* where the effect coroutine is suspended
    saved,      \* _save_states' result so far (list of LightState)
    step,       \* index of the drive broadcast being executed
    ridx,       \* index of the light _restore_states is writing
    inflight,   \* requests issued and not yet completed
    log,        \* [Lights -> sequence of requests issued to that light]
    holds,      \* number of asyncio.sleep calls completed
    exc,        \* exception raised inside the drive phase ("none" if none)
    raised,     \* exception that left the effect call ("none" if none)
    reply,      \* what the front-end reported
    failed,     \* requests whose get_state / set_state raised
    before      \* the lamps' states when the effect was invoked

effectVars == <<device, lights, call, pc, saved, step, ridx, inflight, log,
                holds, exc, raised, reply, failed, before>>

\* State of one KeyLight client and the lamp it talks to (client.py).
VARIABLES
    lamp,       \* wire state the lamp currently holds
    kl,         \* the KeyLight method running: arguments, position, state read
    sent,       \* payloads of the PUT requests the client has sent, in order
    raced,      \* another writer changed the lamp between the read and the write
    reads       \* number of GET requests the client has sent

clientVars == <<lamp, kl, sent, raced, reads>>

\* State of the configuration loader and its callers (config.py, models.py,
\* tray.py, panel.py).
VARIABLES
    file,       \* the parsed config.toml, or nothing when the file is absent
    mdns,       \* what discover_lights does when it is called
    answer      \* the last call into the loader and what it produced

configVars == <<file, mdns, answer>>

\* State of one run of discover_lights (discovery.py).
VARIABLES
    proc,       \* how the avahi-browse subprocess ends
    out,        \* the lines of its output
    dpc,        \* where discover_lights is: "idle", "loop" or "done"
    idx,        \* number of output lines the loop has consumed
    seen,       \* hosts already taken
    found,      \* the lights list built so far
    ret         \* what discover_lights returned or raised

discoveryVars == <<proc, out, dpc, idx, seen, found, ret>>

\* One read of LightState.temperature_kelvin (models.py).
VARIABLES
    temp,       \* the temperature field of the LightState
    kelvin      \* what the property returned: <<>> before it is read

modelVars == <<temp, kelvin>>

\* State of one front-end operation (cli.py, mcp_server.py, waybar.py).
VARIABLES
    fe,         \* the operation: front end, command, position, loop indexes
    configs,    \* the lights get_lights returns, in configuration order
    clients,    \* one entry per KeyLight created: "open" or "closed"
    traffic,    \* the requests sent to the lights, in order, with their outcome
    room,       \* per light, whether it holds its "old" or its "new" state
    results,    \* the per-light lines reported, in order
    lit,        \* per light, the on field of the state waybar read from it
    css         \* the class waybar printed: "" before it has

frontVars == <<fe, configs, clients, traffic, room, results, lit, css>>

\* Two effect calls running as independent coroutines against one light.
VARIABLES
    bulb,       \* wire state the light currently holds
    origin,     \* wire state the light held before the first effect started
    tasks,      \* per coroutine: its call, its position, its snapshot, its step
    overlap     \* the second effect started while the first was running

overlapVars == <<bulb, origin, tasks, overlap>>

\* One LightControl of the GTK applications (tray.py, panel.py) on the GLib
\* main loop, which runs one handler at a time.
VARIABLES
    gui,        \* which application the control belongs to: "tray" or "panel"
    ctrl,       \* the LightControl: cached values, widgets, flag, _debounce_id
    sources,    \* the pending GLib timeout sources: id and time left
    nsrc,       \* number of timeout sources created so far
    puts,       \* payloads of the PUT requests sent, in order
    fixture,    \* wire state the lamp currently holds
    want,       \* the values the control held after the last change not yet sent
    wants,      \* the value of want at each send, in order
    bursts,     \* number of changes that arrived with no timer pending
    polls,      \* number of refreshes from the lamp so far
    changes     \* number of user changes so far

guiVars == <<gui, ctrl, sources, nsrc, puts, fixture, want, wants, bursts, polls, changes>>

\* The variables each component never touches.
notEffects == <<clientVars, configVars, discoveryVars, modelVars, frontVars, overlapVars, guiVars>>

notClient == <<effectVars, configVars, discoveryVars, modelVars, frontVars, overlapVars, guiVars>>

notConfig == <<effectVars, clientVars, discoveryVars, modelVars, frontVars, overlapVars, guiVars>>

notDiscovery == <<effectVars, clientVars, configVars, modelVars, frontVars, overlapVars, guiVars>>

notModel == <<effectVars, clientVars, configVars, discoveryVars, frontVars, overlapVars, guiVars>>

notFront == <<effectVars, clientVars, configVars, discoveryVars, modelVars, overlapVars, guiVars>>

notOverlap == <<effectVars, clientVars, configVars, discoveryVars, modelVars, frontVars, guiVars>>

notGui == <<effectVars, clientVars, configVars, discoveryVars, modelVars, frontVars, overlapVars>>

vars == <<effectVars, clientVars, configVars, discoveryVars, modelVars, frontVars, overlapVars, guiVars>>

NoState == LightState(FALSE, 0, 0)

Req(light, op, phase, state, k) ==
    [light |-> light, op |-> op, phase |-> phase, state |-> state, step |-> k]

Call(name, n, target, mood, via) ==
    [name |-> name, n |-> n, target |-> target, mood |-> mood, via |-> via]

NoCall == Call("none", 0, 0, "", "")

RestoringEffects == {"flash", "pulse", "celebration", "alert", "dim_slowly"}

DimTargets == {0, 10}

MoodInputs == MoodNames \cup {"disco"}

Calls ==
    {Call("flash", n, 0, "", "lib") : n \in 0..MaxTimes}
    \cup {Call("alert", n, 0, "", "lib") : n \in 0..MaxTimes}
    \cup {Call("pulse", n, 0, "", "lib") : n \in 0..MaxCycles}
    \cup {Call("celebration", 0, 0, "", "lib")}
    \cup {Call("dim_slowly", n, t, "", "lib") : n \in 0..MaxDimSteps, t \in DimTargets}
    \cup {Call("set_mood", 0, 0, m, via) : m \in MoodInputs, via \in {"lib", "mcp"}}

RECURSIVE Sorted(_)
\* The elements of a set of lights as a list in configuration order.
Sorted(S) ==
    IF S = {} THEN <<>>
    ELSE LET m == CHOOSE x \in S : \A y \in S : x <= y
         IN  <<m>> \o Sorted(S \ {m})

\* get_lights(names): the configured lights whose name is selected, in
\* configuration order.
TargetLists == {Sorted(S) : S \in SUBSET Lights}

\* The lamps' states when the effect is invoked: neighbouring lamps differ.
InitDevices ==
    {[l \in Lights |-> IF l % 2 = 1 THEN a ELSE b] :
        a \in InitStates, b \in InitStates} \ {[l \in Lights |-> a] : a \in InitStates}

\* A KeyLight method call: its name, its optional brightness (or delta) and
\* temperature arguments (None is the empty sequence) and, for set_state, the
\* state handed in.
Method(op, b, t, st) == [op |-> op, b |-> b, t |-> t, st |-> st]

NoMethod == Method("none", <<>>, <<>>, NoState)

\* No client method has been called.
ClientIdle ==
    /\ lamp = ToApi(OffState)
    /\ kl = [m |-> NoMethod, pc |-> "idle", state |-> NoState, raised |-> "none"]
    /\ sent = <<>>
    /\ raced = FALSE
    /\ reads = 0

\* A light of the configuration.
LightConfig(name, host, port, id) == [name |-> name, host |-> host, port |-> port, id |-> id]

\* The name filter handed to get_lights: None, or a list of names.
Filter(given, names) == [given |-> given, names |-> names]

NoFilter == Filter(FALSE, <<>>)

\* The outcome of discover_lights: it raises, or returns a list of lights.
Discovery(raises, ls) == [raises |-> raises, lights |-> ls]

\* What a call into the loader produced: whether it raised, whether it ran
\* discovery, and the lights, preset map and light states it yielded.
Answer(op, preset, filter, err, probed, ls, presets, states) ==
    [op |-> op, preset |-> preset, filter |-> filter, raised |-> err,
     probed |-> probed, lights |-> ls, presets |-> presets, states |-> states]

NoAnswer == Answer("none", "", NoFilter, "none", FALSE, <<>>, <<>>, <<>>)

\* No configuration file, nothing on the network, no call made.
ConfigIdle ==
    /\ file = <<>>
    /\ mdns = Discovery(FALSE, <<>>)
    /\ answer = NoAnswer

\* discover_lights has not been called.
DiscoveryIdle ==
    /\ proc = "ok"
    /\ out = <<>>
    /\ dpc = "idle"
    /\ idx = 0
    /\ seen = {}
    /\ found = <<>>
    /\ ret = Discovery(FALSE, <<>>)

\* A LightControl: current_on, current_brightness, current_temperature, the
\* switch and the two scales, _updating_from_api, _debounce_id (0 for None).
Control(on, b, t, sw, bs, ts, flag, id) ==
    [current_on |-> on, current_brightness |-> b, current_temperature |-> t,
     switch |-> sw, brightness_scale |-> bs, temp_scale |-> ts,
     updating |-> flag, debounce |-> id]

\* LightControl.__init__ of tray.py.
NewControl == Control(0, DefaultBrightness, DefaultTemperature, FALSE, DefaultBrightness, DefaultTemperature, FALSE, 0)

\* No control has been used.
GuiIdle ==
    /\ gui = "tray"
    /\ ctrl = NewControl
    /\ sources = {}
    /\ nsrc = 0
    /\ puts = <<>>
    /\ fixture = ToApi(OffState)
    /\ want = <<>>
    /\ wants = <<>>
    /\ bursts = 0
    /\ polls = 0
    /\ changes = 0

Coroutines == {1, 2}

\* One effect call: where it is, what it saved, the broadcast it is at.
Task(c, p, sv, k) == [call |-> c, pc |-> p, saved |-> sv, k |-> k]

\* No coroutine has been started.
OverlapIdle ==
    /\ bulb = ToApi(OffState)
    /\ origin = ToApi(OffState)
    /\ tasks = [t \in Coroutines |-> Task(NoCall, "idle", <<>>, 0)]
    /\ overlap = FALSE

\* temperature_kelvin has not been read.
ModelIdle ==
    /\ temp = DefaultTemperature
    /\ kelvin = <<>>

\* The lights a configuration may declare.
ConfiguredLights == 1..MaxConfigured

\* A front-end operation: i is the light the loop is at, j the client being
\* closed; states and errors are the two lists waybar collects.
Command(front, cmd, name, p, phase, i, j, r, st, er) ==
    [front |-> front, cmd |-> cmd, name |-> name, pc |-> p, phase |-> phase,
     i |-> i, j |-> j, raised |-> r, states |-> st, errors |-> er]

NoCommand == Command("none", "none", "", "idle", "none", 0, 0, "none", <<>>, <<>>)

\* No front-end operation has been started.
FrontIdle ==
    /\ fe = NoCommand
    /\ configs = <<>>
    /\ clients = <<>>
    /\ traffic = <<>>
    /\ room = [l \in ConfiguredLights |-> "old"]
    /\ results = <<>>
    /\ lit = [l \in ConfiguredLights |-> FALSE]
    /\ css = ""

Init ==
    /\ GuiIdle
    /\ OverlapIdle
    /\ ModelIdle
    /\ FrontIdle
    /\ device \in InitDevices
    /\ lights = <<>>
    /\ call = NoCall
    /\ pc = "idle"
    /\ saved = <<>>
    /\ step = 0
    /\ ridx = 0
    /\ inflight = {}
    /\ log = [l \in Lights |-> <<>>]
    /\ holds = 0
    /\ exc = "none"
    /\ raised = "none"
    /\ reply = "none"
    /\ failed = {}
    /\ before = device
    /\ ClientIdle
    /\ ConfigIdle
    /\ DiscoveryIdle

\* ---------------------------------------------------------------- effects.py
IsRestoringMutant(c) == TRUE
\* Every effect but set_mood snapshots first and restores in a finally block.
IsRestoring(c) == c.name # "set_mood"

MoodLookupMutant(mood) ==
    IF mood \in DOMAIN Moods THEN <<Moods[mood]>> ELSE <<Moods["focus"]>>
\* moods.get(mood): the state, or nothing (None) for a name not in the table.
MoodLookup(mood) ==
    IF mood \in DOMAIN Moods THEN <<Moods[mood]>> ELSE <<>>

\* The states one pass of the outer loop of call c broadcasts, given the
\* snapshot sv.
LoopBody(c, sv) ==
    CASE c.name = "flash" -> FlashOnOff(LightState(TRUE, 100, 200))
      [] c.name = "alert" -> FlashOnOff(LightState(TRUE, 100, 143))
      [] c.name = "pulse" -> PulseCycle
      [] c.name = "celebration" -> CelebrationSweep
      [] c.name = "dim_slowly" ->
            IF sv = <<>> \/ c.n < 1 THEN <<>> ELSE DimSteps(sv, c.target, c.n)
      [] c.name = "set_mood" -> MoodLookup(c.mood)

\* The number of passes of the outer loop.
LoopCount(c) ==
    CASE c.name \in {"flash", "alert", "pulse"} -> c.n
      [] c.name = "celebration" -> CelebrationRounds
      [] OTHER -> 1

\* The number of broadcasts of the drive phase, and the k-th of them.
NumSteps(c, sv) == Len(LoopBody(c, sv)) * LoopCount(c)

StepAt(c, sv, k) == LoopBody(c, sv)[((k - 1) % Len(LoopBody(c, sv))) + 1]

SaveInsideTryMutant == TRUE
\* saved = await _save_states(lights) is executed before the try block.
SaveInsideTry == FALSE

SetAllRequestsMutant(ls, state, k) == {Req(ls[1], "put", "drive", state, k)}
\* _set_all: gather starts one set_state(state) task per light of the list.
SetAllRequests(ls, state, k) ==
    {Req(ls[i], "put", "drive", state, k) : i \in 1..Len(ls)}

GatherRaisesMutant(ok) == FALSE
\* asyncio.gather (return_exceptions=False) raises as soon as one task raises.
GatherRaises(ok) == ~ok

GatherJoinedMutant(inf) == TRUE
\* asyncio.gather returns when every task of the broadcast has completed.
GatherJoined(inf) == ~\E r \in inf : r.phase = "drive"

ZipMutant(ls, sv) ==
    [i \in 1..(IF Len(ls) <= Len(sv) THEN Len(ls) ELSE Len(sv)) |->
        <<ls[i], sv[(IF Len(ls) <= Len(sv) THEN Len(ls) ELSE Len(sv)) + 1 - i]>>]
\* zip(lights, states): pairs by position, as long as the shorter list.
Zip(ls, sv) ==
    [i \in 1..(IF Len(ls) <= Len(sv) THEN Len(ls) ELSE Len(sv)) |-> <<ls[i], sv[i]>>]

\* The log with each request of reqs (at most one per light) appended.
Record(lg, reqs) ==
    [l \in Lights |->
        IF \E r \in reqs : r.light = l
        THEN Append(lg[l], CHOOSE r \in reqs : r.light = l)
        ELSE lg[l]]

\* _restore_states resumed at pair i, with ex the exception pending in the
\* caller's finally block: write the next light, or leave the effect.
RestoreFrom(ls, sv, i, ex, inf, lg) ==
    LET pairs == Zip(ls, sv)
    IN  IF i > Len(pairs)
        THEN /\ pc' = "done"
             /\ ridx' = i
             /\ raised' = ex
             /\ inflight' = inf
             /\ log' = lg
        ELSE LET r == Req(pairs[i][1], "put", "restore", pairs[i][2], i)
             IN  /\ pc' = "restore"
                 /\ ridx' = i
                 /\ raised' = "none"
                 /\ inflight' = inf \cup {r}
                 /\ log' = Record(lg, {r})

DimRaisesMutant(c, sv) ==
    IF sv = <<>> THEN "index" ELSE IF c.n = 0 THEN "zerodiv" ELSE "none"
\* The exception dim_slowly raises before its first broadcast: none after
\* the early return on an empty snapshot, ZeroDivisionError from t = i / steps
\* when steps is 0.
DimRaises(c, sv) == IF sv # <<>> /\ c.n = 0 THEN "zerodiv" ELSE "none"

\* The drive loop resumed at broadcast k (1-based).
DriveFrom(c, ls, sv, k, inf, lg) ==
    IF c.name = "dim_slowly" /\ DimRaises(c, sv) # "none"
    THEN \* the exception is raised inside the try block
         /\ step' = k
         /\ exc' = DimRaises(c, sv)
         /\ RestoreFrom(ls, sv, 1, DimRaises(c, sv), inf, lg)
    ELSE IF k > NumSteps(c, sv)
    THEN IF c.name = "dim_slowly" /\ sv # <<>>
         THEN \* await asyncio.sleep(2.0)
              /\ pc' = "final_hold"
              /\ step' = k
              /\ inflight' = inf
              /\ log' = lg
              /\ UNCHANGED <<ridx, exc, raised>>
         ELSE /\ step' = k
              /\ exc' = "none"
              /\ RestoreFrom(ls, sv, 1, "none", inf, lg)
    ELSE IF ls = <<>>
    THEN \* gather of no tasks is already done; the coroutine goes to sleep
         /\ pc' = "hold"
         /\ step' = k
         /\ inflight' = inf
         /\ log' = lg
         /\ UNCHANGED <<ridx, exc, raised>>
    ELSE /\ pc' = "gather"
         /\ step' = k
         /\ inflight' = inf \cup SetAllRequests(ls, StepAt(c, sv, k), k)
         /\ log' = Record(lg, SetAllRequests(ls, StepAt(c, sv, k), k))
         /\ UNCHANGED <<ridx, exc, raised>>

Range(f) == {f[i] : i \in DOMAIN f}

\* What set_mood_lighting reports after set_mood returned.
MoodReply(c) == IF c.via = "mcp" THEN "mood_set" ELSE "none"

\* A front-end resolves the targeted lights and awaits the effect; the effect
\* runs up to its first suspension.
Invoke(c, ls) ==
    /\ pc = "idle"
    /\ call' = c
    /\ lights' = ls
    /\ before' = device
    /\ UNCHANGED <<device, saved, holds, failed>>
    /\ UNCHANGED notEffects
    /\ IF IsRestoring(c)
       THEN /\ reply' = "none"
            /\ IF ls = <<>>
               THEN DriveFrom(c, ls, <<>>, 1, inflight, log)
               ELSE \* _save_states awaits the first light's get_state
                    /\ pc' = "snapshot"
                    /\ inflight' = {Req(ls[1], "get", "snapshot", NoState, 0)}
                    /\ log' = Record(log, {Req(ls[1], "get", "snapshot", NoState, 0)})
                    /\ UNCHANGED <<step, ridx, exc, raised>>
       ELSE IF c.via = "mcp" /\ c.mood \notin Range(ListMoods)
       THEN \* set_mood_lighting returns the message without creating clients
            /\ pc' = "done"
            /\ reply' = "unknown_mood"
            /\ UNCHANGED <<step, ridx, inflight, log, exc, raised>>
       ELSE IF MoodLookup(c.mood) = <<>>
       THEN \* raise ValueError("Unknown mood ...")
            /\ pc' = "done"
            /\ raised' = "unknown_mood"
            /\ reply' = "none"
            /\ UNCHANGED <<step, ridx, inflight, log, exc>>
       ELSE IF ls = <<>>
       THEN /\ pc' = "done"
            /\ reply' = MoodReply(c)
            /\ UNCHANGED <<step, ridx, inflight, log, exc, raised>>
       ELSE /\ pc' = "gather"
            /\ step' = 1
            /\ reply' = "none"
            /\ inflight' = SetAllRequests(ls, MoodLookup(c.mood)[1], 1)
            /\ log' = Record(log, SetAllRequests(ls, MoodLookup(c.mood)[1], 1))
            /\ UNCHANGED <<ridx, exc, raised>>

\* A snapshot get_state completes: _save_states appends the state and awaits
\* the next light, or the request raises.
GetComplete(r, ok) ==
    /\ pc = "snapshot"
    /\ r \in inflight
    /\ r.op = "get"
    /\ UNCHANGED <<device, lights, call, holds, reply, before>>
    /\ UNCHANGED notEffects
    /\ IF ok
       THEN /\ saved' = Append(saved, FromApi(device[r.light]))
            /\ failed' = failed
            /\ IF Len(saved) + 1 < Len(lights)
               THEN /\ pc' = "snapshot"
                    /\ inflight' = (inflight \ {r})
                         \cup {Req(lights[Len(saved) + 2], "get", "snapshot", NoState, 0)}
                    /\ log' = Record(log,
                                {Req(lights[Len(saved) + 2], "get", "snapshot", NoState, 0)})
                    /\ UNCHANGED <<step, ridx, exc, raised>>
               ELSE DriveFrom(call, lights, Append(saved, FromApi(device[r.light])),
                              1, inflight \ {r}, log)
       ELSE /\ saved' = saved
            /\ failed' = failed \cup {r}
            /\ IF SaveInsideTry
               THEN /\ step' = step
                    /\ exc' = "snapshot"
                    /\ RestoreFrom(lights, saved, 1, "snapshot", inflight \ {r}, log)
               ELSE /\ pc' = "done"
                    /\ raised' = "snapshot"
                    /\ inflight' = inflight \ {r}
                    /\ UNCHANGED <<step, ridx, log, exc>>

\* A drive set_state completes. applied: the lamp took the state (always when
\* the request succeeded; a request that raises may or may not have reached it).
PutComplete(r, ok, applied) ==
    /\ r \in inflight
    /\ r.phase = "drive"
    /\ ok => applied
    /\ device' = IF applied THEN [device EXCEPT ![r.light] = ToApi(r.state)] ELSE device
    /\ failed' = IF ok THEN failed ELSE failed \cup {r}
    /\ UNCHANGED <<lights, call, saved, holds, before>>
    /\ UNCHANGED notEffects
    /\ IF pc # "gather"
       THEN \* gather has already raised: the task runs on, its outcome is dropped
            /\ inflight' = inflight \ {r}
            /\ UNCHANGED <<pc, step, ridx, log, exc, raised, reply>>
       ELSE IF GatherRaises(ok)
       THEN /\ step' = step
            /\ exc' = "drive"
            /\ reply' = reply
            /\ IF IsRestoring(call)
               THEN RestoreFrom(lights, saved, 1, "drive", inflight \ {r}, log)
               ELSE /\ pc' = "done"
                    /\ raised' = "drive"
                    /\ inflight' = inflight \ {r}
                    /\ UNCHANGED <<ridx, log>>
       ELSE IF GatherJoined(inflight \ {r})
       THEN /\ inflight' = inflight \ {r}
            /\ IF IsRestoring(call)
               THEN \* await asyncio.sleep(...)
                    /\ pc' = "hold"
                    /\ reply' = reply
               ELSE /\ pc' = "done"
                    /\ reply' = MoodReply(call)
            /\ UNCHANGED <<step, ridx, log, exc, raised>>
       ELSE /\ inflight' = inflight \ {r}
            /\ UNCHANGED <<pc, step, ridx, log, exc, raised, reply>>

\* The sleep after a broadcast ends; the loop goes on with the next broadcast.
Hold ==
    /\ pc = "hold"
    /\ holds' = holds + 1
    /\ DriveFrom(call, lights, saved, step + 1, inflight, log)
    /\ UNCHANGED <<device, lights, call, saved, reply, failed, before>>
    /\ UNCHANGED notEffects

\* dim_slowly's closing sleep(2.0) ends; the finally block restores.
FinalHold ==
    /\ pc = "final_hold"
    /\ holds' = holds + 1
    /\ step' = step
    /\ exc' = "none"
    /\ RestoreFrom(lights, saved, 1, "none", inflight, log)
    /\ UNCHANGED <<device, lights, call, saved, reply, failed, before>>
    /\ UNCHANGED notEffects

\* A restore set_state completes: the loop writes the next light, or the
\* exception leaves _restore_states (nothing catches it).
RestoreComplete(r, ok, applied) ==
    /\ pc = "restore"
    /\ r \in inflight
    /\ r.phase = "restore"
    /\ ok => applied
    /\ device' = IF applied THEN [device EXCEPT ![r.light] = ToApi(r.state)] ELSE device
    /\ failed' = IF ok THEN failed ELSE failed \cup {r}
    /\ UNCHANGED <<lights, call, saved, holds, step, exc, reply, before>>
    /\ UNCHANGED notEffects
    /\ IF ok
       THEN RestoreFrom(lights, saved, ridx + 1, exc, inflight \ {r}, log)
       ELSE /\ pc' = "done"
            /\ raised' = "restore"
            /\ inflight' = inflight \ {r}
            /\ UNCHANGED <<ridx, log>>

Next ==
    \/ \E c \in Calls, ls \in TargetLists : Invoke(c, ls)
    \/ \E r \in inflight, ok \in BOOLEAN : GetComplete(r, ok)
    \/ \E r \in inflight, ok \in BOOLEAN, applied \in BOOLEAN : PutComplete(r, ok, applied)
    \/ Hold
    \/ FinalHold
    \/ \E r \in inflight, ok \in BOOLEAN, applied \in BOOLEAN : RestoreComplete(r, ok, applied)

Spec == Init /\ [][Next]_vars

\* ---------------------------------------------------------------- claims
Targets == Range(lights)

\* The snapshot phase of a restoring effect completed for every targeted light.
SnapshotDone == IsRestoring(call) /\ pc # "idle" /\ Len(saved) = Len(lights)

\* The restore write issued to the i-th targeted light, as logged.
RestoreReq(i) == Req(lights[i], "put", "restore", saved[i], i)

Logged(r) == \E j \in 1..Len(log[r.light]) : log[r.light][j] = r

Succeeded(r) == Logged(r) /\ r \notin inflight /\ r \notin failed

\* C1: after a restoring effect has returned or raised following a successful
\* snapshot, every targeted light whose own restore write succeeded holds its
\* pre-effect state.
C1_RestoredAfterEffect ==
    (pc = "done" /\ SnapshotDone) =>
        \A i \in 1..Len(lights) :
            Succeeded(RestoreReq(i)) => device[lights[i]] = before[lights[i]]

\* C2: once the restore phase of a restoring effect is over, a restore
\* set_state has been attempted for every light of the snapshot, also for the
\* lights that come after one whose restore write failed.
C2_RestoreAttemptedForAll ==
    (pc = "done" /\ SnapshotDone) =>
        \A i \in 1..Len(lights) : Logged(RestoreReq(i))

\* C3: the restore phase never raises: the effect returns normally when the
\* drive succeeded, and otherwise raises the drive's exception, whatever the
\* outcome of the restore writes.
C3_RestoreNeverRaises ==
    (pc = "done" /\ SnapshotDone) => raised = exc

\* Every request ever issued to light l that satisfies the test.
Issued(l, op, phase) ==
    SelectSeq(log[l], LAMBDA r : r.op = op /\ r.phase = phase)

NoWrites == \A l \in Lights : \A j \in 1..Len(log[l]) : log[l][j].op # "put"

NoRequests == inflight = {} /\ \A l \in Lights : log[l] = <<>>

\* C4: when a snapshot get_state fails the effect fails with that error, and
\* no set_state, drive or restore, is ever issued: every light keeps its state.
C4_SnapshotFailureNoWrites ==
    (\E r \in failed : r.op = "get") =>
        /\ pc = "done"
        /\ raised = "snapshot"
        /\ NoWrites
        /\ device = before

\* C4 witness: the second light's snapshot read failed after the first light
\* had been read.
C4_Witness ==
    /\ call.name \in RestoringEffects
    /\ Len(lights) = 2
    /\ Len(saved) = 1
    /\ \E r \in failed : r.op = "get" /\ r.light = lights[2]

DriveFailures == {r \in failed : r.phase = "drive"}

\* C5: once a set_state of drive broadcast k has failed in a restoring effect,
\* the effect is in (or past) its restore phase, no broadcast after k was
\* started, no hold after the k-1 holds that preceded broadcast k was made,
\* and the call ends by raising.
C5_DriveFailureAborts ==
    \A r \in DriveFailures :
        IsRestoring(call) =>
            /\ pc \in {"restore", "done"}
            /\ exc = "drive"
            /\ step = r.step
            /\ holds = r.step - 1
            /\ \A l \in Lights : \A j \in 1..Len(log[l]) :
                   log[l][j].phase = "drive" => log[l][j].step <= r.step
            /\ pc = "done" => raised # "none"

\* C5 witness: a drive write failed in a broadcast that is neither the first
\* nor the last of the effect, and the effect has ended.
C5_Witness ==
    /\ IsRestoring(call)
    /\ pc = "done"
    /\ \E r \in DriveFailures : r.step > 1 /\ r.step < NumSteps(call, saved)

\* Each drive write in the log of light l stands at the same place in the log
\* of light m, with the same state and broadcast number.
SameDriveWrites(l, m) ==
    \A j \in 1..Len(log[l]) :
        log[l][j].phase = "drive" =>
            /\ j <= Len(log[m])
            /\ log[m][j].phase = "drive"
            /\ log[m][j].state = log[l][j].state
            /\ log[m][j].step = log[l][j].step

\* C6: every drive broadcast puts the same state to all targeted lights at
\* once, and as long as no drive write has failed, a write of broadcast k that
\* has not completed keeps the effect in broadcast k: the hold and the next
\* broadcast have not begun.
C6_BroadcastFanOutFanIn ==
    /\ \A m \in Targets : SameDriveWrites(lights[1], m) /\ SameDriveWrites(m, lights[1])
    /\ DriveFailures = {} =>
          \A r \in inflight : r.phase = "drive" => pc = "gather" /\ r.step = step

\* C6 witness: in the second broadcast all writes are in flight together.
C6_Witness ==
    /\ pc = "gather"
    /\ step = 2
    /\ Len(lights) >= 2
    /\ \A i \in 1..Len(lights) : \E r \in inflight : r.light = lights[i] /\ r.step = 2

\* C7: after flash(n) or alert(n) has returned normally, each targeted light
\* has received exactly one get_state, then 2n drive writes alternating on
\* (brightness 100) and off, then one restore write; other lights nothing.
C7_FlashRequestSequence ==
    (call.name \in {"flash", "alert"} /\ pc = "done" /\ raised = "none") =>
        /\ \A l \in Lights \ Targets : log[l] = <<>>
        /\ \A l \in Targets :
              /\ Len(log[l]) = 2 * call.n + 2
              /\ log[l][1].op = "get"
              /\ \A j \in 1..(2 * call.n) :
                    /\ log[l][j + 1].op = "put"
                    /\ log[l][j + 1].phase = "drive"
                    /\ log[l][j + 1].state.on = (j % 2 = 1)
                    /\ j % 2 = 1 => log[l][j + 1].state.brightness = 100
              /\ log[l][2 * call.n + 2].op = "put"
              /\ log[l][2 * call.n + 2].phase = "restore"

\* C7 witness: flash(times=2) on two lights returned normally.
C7_Witness ==
    /\ call.name = "flash"
    /\ call.n = 2
    /\ Len(lights) = 2
    /\ pc = "done"
    /\ raised = "none"

RestoresInFlight == {r \in inflight : r.phase = "restore"}

\* C8: at most one restore write is in flight; a light's restore write is
\* issued only after the restore writes of all lights snapshotted before it
\* have succeeded; and the state written to the i-th light is the i-th
\* snapshot, which is that light's own pre-effect state.
C8_RestoreOrderAndPairing ==
    /\ Cardinality(RestoresInFlight) <= 1
    /\ \A i \in 1..Len(lights) :
          \A j \in 1..Len(log[lights[i]]) :
              log[lights[i]][j].phase = "restore" =>
                  /\ log[lights[i]][j].state = saved[i]
                  /\ ToApi(log[lights[i]][j].state) = before[lights[i]]
                  /\ \A h \in 1..(i - 1) : Succeeded(RestoreReq(h))
    /\ \A l \in Lights : Len(Issued(l, "put", "restore")) <= 1

\* C8 witness: both lights, snapshotted with different states, were restored.
C8_Witness ==
    /\ Len(lights) = 2
    /\ Len(saved) = 2
    /\ saved[1] # saved[2]
    /\ Succeeded(RestoreReq(1))
    /\ Succeeded(RestoreReq(2))

KnownMood == call.name = "set_mood" /\ call.mood \in MoodNames

\* C9: set_mood with a known name never reads a snapshot nor writes a
\* restore; each targeted light gets the mood state at most once, and when
\* set_mood has returned each has got it exactly once and holds it.
C9_MoodPersists ==
    KnownMood =>
        /\ \A l \in Lights \ Targets : log[l] = <<>>
        /\ \A l \in Targets :
              /\ Len(log[l]) <= 1
              /\ \A j \in 1..Len(log[l]) :
                    log[l][j] = Req(l, "put", "drive", Moods[call.mood], 1)
        /\ (pc = "done" /\ raised = "none") =>
              \A l \in Targets :
                  /\ Len(log[l]) = 1
                  /\ device[l] = ToApi(Moods[call.mood])

\* C9 witness: set_mood("cozy") returned on two lights, both changed.
C9_Witness ==
    /\ KnownMood
    /\ call.mood = "cozy"
    /\ Len(lights) = 2
    /\ pc = "done"
    /\ raised = "none"
    /\ \A l \in Targets : device[l] # before[l]

UnknownMood == call.name = "set_mood" /\ call.mood \notin MoodNames

\* C10: set_mood with a name outside the mood table ends at once with the
\* unknown-mood error (raised by set_mood, reported by the MCP tool); no
\* request is ever sent and no light changes.
C10_UnknownMoodRejected ==
    UnknownMood =>
        /\ pc = "done"
        /\ IF call.via = "mcp" THEN reply = "unknown_mood" ELSE raised = "unknown_mood"
        /\ NoRequests
        /\ device = before

\* C10 witness: set_mood("disco") called directly on two lights.
C10_Witness ==
    /\ UnknownMood
    /\ call.via = "lib"
    /\ Len(lights) = 2
    /\ raised = "unknown_mood"

\* ---------------------------------------------------------------- client.py
Min(a, b) == IF a <= b THEN a ELSE b

ClampBrightnessMutant(b) == b
\* max(0, min(100, brightness)) of set_brightness and adjust_brightness.
ClampBrightness(b) == Max(0, Min(100, b))

ClampTemperatureMutant(t) == IF t > 344 THEN 344 ELSE t
\* max(143, min(344, temperature)) of set_temperature.
ClampTemperature(t) == Max(143, Min(344, t))

\* Arguments the methods are called with, in and out of range.
BrightnessArgs == {-5, 0, 60, 100, 150}

DeltaArgs == {-1000, -30, 15, 1000}

TemperatureArgs == {50, 143, 250, 344, 999}

OptBrightness == {<<>>, <<70>>, <<150>>}

OptTemperature == {<<>>, <<300>>, <<100>>}

\* States handed to set_state itself (by a caller, or by a preset whose
\* configured values are passed through as they are).
StateArgs ==
    {LightState(TRUE, 60, 250), LightState(TRUE, 150, 100), LightState(FALSE, -1, 400)}

Methods ==
    {Method("set_brightness", <<b>>, <<>>, NoState) : b \in BrightnessArgs}
    \cup {Method("adjust_brightness", <<d>>, <<>>, NoState) : d \in DeltaArgs}
    \cup {Method("set_temperature", <<>>, <<t>>, NoState) : t \in TemperatureArgs}
    \cup {Method("turn_on", b, t, NoState) : b \in OptBrightness, t \in OptTemperature}
    \cup {Method(op, <<>>, <<>>, NoState) : op \in {"turn_off", "toggle"}}
    \cup {Method("set_state", <<>>, <<>>, st) : st \in StateArgs}

\* What another writer (the vendor app, a second front-end) puts on the lamp.
OtherStates ==
    {[on |-> 1, brightness |-> 80, temperature |-> 150],
     [on |-> 0, brightness |-> 5, temperature |-> 330]}

MutatedFreshMutant(m, state) ==
    IF m.op = "toggle" THEN LightState(~state.on, DefaultBrightness, DefaultTemperature)
    ELSE IF m.op = "turn_off" THEN LightState(FALSE, DefaultBrightness, DefaultTemperature)
    ELSE state

MutatedMutant(m, state) == state
\* The state a convenience mutator hands to set_state, given the state its
\* get_state returned.
Mutated(m, state) ==
    CASE m.op = "turn_on" ->
            LightState(TRUE,
                       IF m.b # <<>> THEN m.b[1] ELSE state.brightness,
                       IF m.t # <<>> THEN m.t[1] ELSE state.temperature)
      [] m.op = "turn_off" -> [state EXCEPT !.on = FALSE]
      [] m.op = "toggle" -> [state EXCEPT !.on = ~state.on]
      [] m.op = "set_brightness" ->
            [state EXCEPT !.brightness = ClampBrightness(m.b[1])]
      [] m.op = "adjust_brightness" ->
            [state EXCEPT !.brightness = ClampBrightness(state.brightness + m.b[1])]
      [] m.op = "set_temperature" ->
            [state EXCEPT !.temperature = ClampTemperature(m.t[1])]

\* The effect sequencer at rest.
EffectsIdle ==
    /\ device = [l \in Lights |-> ToApi(OffState)]
    /\ lights = <<>>
    /\ call = NoCall
    /\ pc = "idle"
    /\ saved = <<>>
    /\ step = 0
    /\ ridx = 0
    /\ inflight = {}
    /\ log = [l \in Lights |-> <<>>]
    /\ holds = 0
    /\ exc = "none"
    /\ raised = "none"
    /\ reply = "none"
    /\ failed = {}
    /\ before = device

ClientInit ==
    /\ GuiIdle
    /\ OverlapIdle
    /\ EffectsIdle
    /\ ModelIdle
    /\ FrontIdle
    /\ ConfigIdle
    /\ DiscoveryIdle
    /\ lamp \in InitStates
    /\ kl = [m |-> NoMethod, pc |-> "idle", state |-> NoState, raised |-> "none"]
    /\ sent = <<>>
    /\ raced = FALSE
    /\ reads = 0

\* A method of the client is called.  set_state sends its PUT at once; every
\* other method first sends a GET.
KLCall(m) ==
    /\ kl.pc = "idle"
    /\ IF m.op = "set_state"
       THEN /\ kl' = [kl EXCEPT !.m = m, !.pc = "put"]
            /\ sent' = Append(sent, ToApi(m.st))
            /\ reads' = reads
       ELSE /\ kl' = [kl EXCEPT !.m = m, !.pc = "get"]
            /\ sent' = sent
            /\ reads' = reads + 1
    /\ UNCHANGED <<lamp, raced, notClient>>

\* The mutator's get_state completes: on failure the method raises; otherwise
\* it changes its field of the state read and sends that state with set_state.
KLGetComplete(ok) ==
    /\ kl.pc = "get"
    /\ IF ok
       THEN /\ kl' = [kl EXCEPT !.pc = "put", !.state = FromApi(lamp)]
            /\ sent' = Append(sent, ToApi(Mutated(kl.m, FromApi(lamp))))
       ELSE /\ kl' = [kl EXCEPT !.pc = "done", !.raised = "http"]
            /\ sent' = sent
    /\ UNCHANGED <<lamp, raced, reads, notClient>>

\* The PUT completes: the lamp holds the payload if the request reached it, and
\* the method raises if the request failed.
KLPutComplete(ok, applied) ==
    /\ kl.pc = "put"
    /\ ok => applied
    /\ lamp' = IF applied THEN sent[Len(sent)] ELSE lamp
    /\ kl' = [kl EXCEPT !.pc = "done", !.raised = IF ok THEN "none" ELSE "http"]
    /\ UNCHANGED <<sent, raced, reads, notClient>>

\* Another writer changes the lamp; nothing in the client excludes it.
OtherWrite(s) ==
    /\ s # lamp
    /\ lamp' = s
    /\ raced' = (raced \/ (kl.pc = "put" /\ kl.m.op # "set_state"))
    /\ UNCHANGED <<kl, sent, reads, notClient>>

ClientNext ==
    \/ \E m \in Methods : KLCall(m)
    \/ \E ok \in BOOLEAN : KLGetComplete(ok)
    \/ \E ok \in BOOLEAN, applied \in BOOLEAN : KLPutComplete(ok, applied)
    \/ \E s \in OtherStates : OtherWrite(s)

ClientSpec == ClientInit /\ [][ClientNext]_vars

\* ------------------------------------------------------- claims on the client
\* x limited to lo..hi, written out case by case.
Clip(x, lo, hi) == IF x < lo THEN lo ELSE IF x > hi THEN hi ELSE x

\* C11: the state set_brightness(b) writes has brightness min(100, max(0, b)),
\* the state adjust_brightness(d) writes has brightness min(100, max(0, c + d))
\* where c is the brightness it read, and either way the written brightness
\* lies in 0..100.
C11_BrightnessClamped ==
    \A i \in DOMAIN sent :
        /\ kl.m.op = "set_brightness" =>
              sent[i].brightness = Clip(kl.m.b[1], 0, 100)
        /\ kl.m.op = "adjust_brightness" =>
              sent[i].brightness = Clip(kl.state.brightness + kl.m.b[1], 0, 100)
        /\ kl.m.op \in {"set_brightness", "adjust_brightness"} =>
              sent[i].brightness \in 0..100

\* C11 witness: adjust_brightness(-1000) from brightness 40 has written 0.
C11_Witness ==
    /\ kl.m.op = "adjust_brightness"
    /\ kl.m.b = <<-1000>>
    /\ kl.state.brightness = 40
    /\ kl.pc = "done"
    /\ kl.raised = "none"
    /\ sent # <<>>
    /\ sent[1].brightness = 0

\* C12: the state set_temperature(t) writes has temperature
\* min(344, max(143, t)), which lies in 143..344.
C12_TemperatureClamped ==
    \A i \in DOMAIN sent :
        kl.m.op = "set_temperature" =>
            /\ sent[i].temperature = Clip(kl.m.t[1], 143, 344)
            /\ sent[i].temperature \in 143..344

\* C12 witness: set_temperature(50) has written 143.
C12_Witness ==
    /\ kl.m.op = "set_temperature"
    /\ kl.m.t = <<50>>
    /\ kl.pc = "done"
    /\ kl.raised = "none"
    /\ sent # <<>>
    /\ sent[1].temperature = 143

\* C13: every PUT the client sends, whatever the method, carries a brightness
\* in 0..100 and a temperature in 143..344.
C13_EveryPutInRange ==
    \A i \in DOMAIN sent :
        /\ sent[i].brightness \in 0..100
        /\ sent[i].temperature \in 143..344

\* The state a mutator is bound to write: the state it read with its own field
\* changed, spelled out method by method.
OwnFieldChanged ==
    CASE kl.m.op = "toggle" -> [kl.state EXCEPT !.on = ~kl.state.on]
      [] kl.m.op = "turn_off" -> [kl.state EXCEPT !.on = FALSE]
      [] kl.m.op = "set_brightness" ->
            [kl.state EXCEPT !.brightness = Clip(kl.m.b[1], 0, 100)]
      [] kl.m.op = "adjust_brightness" ->
            [kl.state EXCEPT !.brightness = Clip(kl.state.brightness + kl.m.b[1], 0, 100)]
      [] kl.m.op = "set_temperature" ->
            [kl.state EXCEPT !.temperature = Clip(kl.m.t[1], 143, 344)]
      [] OTHER -> kl.state

ReadModifyWrite == {"toggle", "turn_off", "set_brightness", "adjust_brightness", "set_temperature"}

\* C14: a mutator's write that succeeds leaves on the lamp the state the
\* mutator read with its own field changed, whatever the lamp held just
\* before the write: what another writer put there after the read is lost.
C14_LastWriteWins ==
    [][(kl.pc = "put" /\ kl.m.op \in ReadModifyWrite /\ kl'.pc = "done" /\ kl'.raised = "none")
          => lamp' = ToApi(OwnFieldChanged)]_vars

\* C14 witness: set_brightness read temperature 290, another writer then set
\* temperature 150, and the mutator's write put 290 back.
C14_Witness ==
    /\ kl.m.op = "set_brightness"
    /\ kl.pc = "done"
    /\ kl.raised = "none"
    /\ raced
    /\ kl.state.temperature = 290
    /\ lamp.temperature = 290
    /\ lamp.brightness = Clip(kl.m.b[1], 0, 100)

\* ------------------------------------------------- config.py, models.py
PresetValues(brightness, temperature) ==
    [brightness |-> brightness, temperature |-> temperature]

Preset(brightness, temperature, per_light) ==
    [brightness |-> brightness, temperature |-> temperature, per_light |-> per_light]

\* No entries: an empty dict.
Empty == [k \in {} |-> 0]

BuiltinNames == {"bright", "dim", "warm", "cool", "video"}

\* DEFAULT_PRESETS of config.py.
DefaultPresets ==
    [n \in BuiltinNames |->
        CASE n = "bright" -> Preset(100, 200, Empty)
          [] n = "dim" -> Preset(15, 250, Empty)
          [] n = "warm" -> Preset(60, 320, Empty)
          [] n = "cool" -> Preset(70, 155, Empty)
          [] n = "video" -> Preset(55, 215, Empty)]

\* A preset table of config.toml: optional brightness and temperature (absent
\* is the empty sequence) and the sub-tables keyed by light.
Table(brightness, temperature, tables) ==
    [brightness |-> brightness, temperature |-> temperature, tables |-> tables]

\* A [[lights]] entry of config.toml: port and id are optional.
Entry(name, host, port, id) == [name |-> name, host |-> host, port |-> port, id |-> id]

ToStateMutant(p, light_name, device_id, on) ==
    IF light_name # "" /\ light_name \in DOMAIN p.per_light
    THEN LightState(on, p.per_light[light_name].brightness, p.per_light[light_name].temperature)
    ELSE IF device_id # "" /\ device_id \in DOMAIN p.per_light
    THEN LightState(on, p.per_light[device_id].brightness, p.per_light[device_id].temperature)
    ELSE LightState(on, p.brightness, p.temperature)
\* Preset.to_state: the first of (device_id, light_name) that is non-empty and
\* a key of per_light decides; otherwise the preset's own values.
ToState(p, light_name, device_id, on) ==
    IF device_id # "" /\ device_id \in DOMAIN p.per_light
    THEN LightState(on, p.per_light[device_id].brightness, p.per_light[device_id].temperature)
    ELSE IF light_name # "" /\ light_name \in DOMAIN p.per_light
    THEN LightState(on, p.per_light[light_name].brightness, p.per_light[light_name].temperature)
    ELSE LightState(on, p.brightness, p.temperature)

\* dict(base) followed by update(over): the entries of over replace or extend
\* those of base.
Overlay(base, over) ==
    [n \in DOMAIN base \cup DOMAIN over |-> IF n \in DOMAIN over THEN over[n] ELSE base[n]]

\* One preset table turned into a Preset (the loop body of _parse_config).
ParsePreset(t) ==
    Preset(IF t.brightness # <<>> THEN t.brightness[1] ELSE 50,
           IF t.temperature # <<>> THEN t.temperature[1] ELSE 200,
           [k \in DOMAIN t.tables |->
               PresetValues(t.tables[k].brightness, t.tables[k].temperature)])

\* One [[lights]] entry turned into a LightConfig.
ParseLight(e) ==
    LightConfig(e.name, e.host,
                IF e.port # <<>> THEN e.port[1] ELSE 9123,
                IF e.id # <<>> THEN e.id[1] ELSE "")

\* What load_config yields: the exception it raised if any, whether it ran
\* discovery, and the AppConfig's lights and presets.
Loaded(err, probed, ls, presets) ==
    [raised |-> err, probed |-> probed, lights |-> ls, presets |-> presets]

\* _discover_fallback: the lights discover_lights returns (an empty list is
\* reported on stderr and returned as it is); its exception propagates.
DiscoverFallback(d, presets) ==
    IF d.raises THEN Loaded("ValueError", TRUE, <<>>, Empty)
    ELSE Loaded("none", TRUE, d.lights, presets)

ParseConfigMutant(data, d) ==
    Loaded("none", FALSE,
           [i \in DOMAIN data.lights |-> ParseLight(data.lights[i])],
           Overlay(DefaultPresets, [n \in DOMAIN data.presets |-> ParsePreset(data.presets[n])]))
\* _parse_config: the declared lights, the defaults overlaid with the user's
\* presets, and discovery when no light is declared.
ParseConfig(data, d) ==
    LET ls == [i \in DOMAIN data.lights |-> ParseLight(data.lights[i])]
        ps == Overlay(DefaultPresets,
                      [n \in DOMAIN data.presets |-> ParsePreset(data.presets[n])])
    IN  IF Len(data.lights) = 0 THEN DiscoverFallback(d, ps)
        ELSE Loaded("none", FALSE, ls, ps)

\* load_config.
LoadConfig(f, d) ==
    IF Len(f) > 0 THEN ParseConfig(f[1], d) ELSE DiscoverFallback(d, DefaultPresets)

GetLightsMutant(ls, names) ==
    IF ~names.given \/ Len(names.names) = 0 THEN ls
    ELSE LET hits == SelectSeq(names.names, LAMBDA n : \E i \in DOMAIN ls : ls[i].name = n)
         IN  [k \in DOMAIN hits |-> ls[CHOOSE i \in DOMAIN ls : ls[i].name = hits[k]]]
\* get_lights, on the lights load_config returned: all of them when names is
\* None or empty, else those whose name is in names, in their own order.
GetLights(ls, names) ==
    IF ~names.given \/ Len(names.names) = 0 THEN ls
    ELSE SelectSeq(ls, LAMBDA l : l.name \in Range(names.names))

\* ---------------------------------------------------------- tray.py, panel.py
\* The tables both front-ends start from; only the keys of webcam's
\* sub-tables differ (device ids in the tray, light names in the panel).
FrontendDefaults(k1, k2) ==
    [n \in BuiltinNames \cup {"webcam"} |->
        CASE n = "webcam" ->
                Table(<<32>>, <<179>>,
                      [k \in {k1, k2} |->
                          IF k = k1 THEN PresetValues(18, 181) ELSE PresetValues(46, 177)])
          [] n = "bright" -> Table(<<100>>, <<200>>, Empty)
          [] n = "dim" -> Table(<<15>>, <<250>>, Empty)
          [] n = "warm" -> Table(<<60>>, <<320>>, Empty)
          [] n = "cool" -> Table(<<70>>, <<155>>, Empty)
          [] n = "video" -> Table(<<55>>, <<215>>, Empty)]

\* tray.py _load_presets: the user's presets table when it is not empty,
\* else the defaults.
TrayLoadPresets(f) ==
    IF Len(f) > 0 /\ DOMAIN f[1].presets # {} THEN f[1].presets
    ELSE FrontendDefaults("3C:6A:9D:1A:36:45", "3C:6A:9D:1A:36:46")

\* panel.py _load_presets: the defaults updated with the user's presets table.
PanelLoadPresets(f) ==
    IF Len(f) > 0 /\ DOMAIN f[1].presets # {}
    THEN Overlay(FrontendDefaults("right", "left"), f[1].presets)
    ELSE FrontendDefaults("right", "left")

\* ------------------------------------------------ calls into the loader
\* The [[lights]] lists a config.toml may declare.
FileLights ==
    {<<>>,
     <<Entry("left", "10.0.0.1", <<>>, <<"AA">>), Entry("right", "10.0.0.2", <<9124>>, <<>>)>>,
     <<Entry("right", "10.0.0.2", <<>>, <<"">>), Entry("", "10.0.0.3", <<>>, <<>>),
       Entry("left", "10.0.0.1", <<>>, <<"AA">>)>>}

\* A user preset with sub-tables for a device id, for two names and for the
\* empty key.
WebcamTable ==
    Table(<<32>>, <<179>>,
          [k \in {"AA", "left", "right", ""} |->
              CASE k = "AA" -> PresetValues(18, 181)
                [] k = "left" -> PresetValues(46, 177)
                [] k = "right" -> PresetValues(47, 178)
                [] k = "" -> PresetValues(1, 143)])

\* The [presets] tables a config.toml may declare.
FilePresets ==
    {Empty,
     [n \in {"dim"} |-> Table(<<20>>, <<>>, Empty)],
     [n \in {"webcam", "bright"} |->
         IF n = "webcam" THEN WebcamTable ELSE Table(<<90>>, <<210>>, Empty)]}

Files == {<<>>} \cup {<<[lights |-> ls, presets |-> ps]>> : ls \in FileLights, ps \in FilePresets}

Discoveries ==
    {Discovery(FALSE, <<>>),
     Discovery(FALSE, <<LightConfig("key light", "10.0.0.9", 9123, "BB")>>),
     Discovery(TRUE, <<>>)}

Filters ==
    {NoFilter, Filter(TRUE, <<>>), Filter(TRUE, <<"left">>),
     Filter(TRUE, <<"left", "right">>), Filter(TRUE, <<"ghost", "right">>)}

PresetArgs == {"webcam", "bright", "dim", "nope"}

ConfigInit ==
    /\ GuiIdle
    /\ OverlapIdle
    /\ EffectsIdle
    /\ ModelIdle
    /\ FrontIdle
    /\ ClientIdle
    /\ DiscoveryIdle
    /\ file \in Files
    /\ mdns \in Discoveries
    /\ answer = NoAnswer

\* load_config() is called (list_presets returns its presets).
CallLoadConfig ==
    /\ LET r == LoadConfig(file, mdns)
       IN  answer' = Answer("load_config", "", NoFilter, r.raised, r.probed,
                            r.lights, r.presets, <<>>)
    /\ UNCHANGED <<file, mdns, notConfig>>

\* get_lights(names) is called.
CallGetLights(names) ==
    /\ LET r == LoadConfig(file, mdns)
       IN  answer' = Answer("get_lights", "", names, r.raised, r.probed,
                            GetLights(r.lights, names), Empty, <<>>)
    /\ UNCHANGED <<file, mdns, notConfig>>

\* The preset command of cli.py and apply_preset of mcp_server.py, up to the
\* states they hand to set_state: get_preset(name), then for each light of
\* get_lights(names) the preset's to_state.
CallApplyPreset(name, names) ==
    /\ LET r == LoadConfig(file, mdns)
           ls == GetLights(r.lights, names)
       IN  answer' =
             IF r.raised # "none"
             THEN Answer("apply_preset", name, names, r.raised, r.probed, <<>>, Empty, <<>>)
             ELSE IF name \notin DOMAIN r.presets
             THEN Answer("apply_preset", name, names, "unknown_preset", r.probed, <<>>, r.presets, <<>>)
             ELSE Answer("apply_preset", name, names, "none", r.probed, ls, r.presets,
                         [i \in DOMAIN ls |-> ToState(r.presets[name], ls[i].name, ls[i].id, TRUE)])
    /\ UNCHANGED <<file, mdns, notConfig>>

\* The tray resolves its preset map.
CallTrayPresets ==
    /\ answer' = Answer("tray_presets", "", NoFilter, "none", FALSE, <<>>, TrayLoadPresets(file), <<>>)
    /\ UNCHANGED <<file, mdns, notConfig>>

\* The panel resolves its preset map.
CallPanelPresets ==
    /\ answer' = Answer("panel_presets", "", NoFilter, "none", FALSE, <<>>, PanelLoadPresets(file), <<>>)
    /\ UNCHANGED <<file, mdns, notConfig>>

ConfigNext ==
    \/ CallLoadConfig
    \/ \E names \in Filters : CallGetLights(names)
    \/ \E name \in PresetArgs, names \in Filters : CallApplyPreset(name, names)
    \/ CallTrayPresets
    \/ CallPanelPresets

ConfigSpec == ConfigInit /\ [][ConfigNext]_vars

\* ------------------------------------------------------- claims on the loader
\* A preset was applied: the preset resolved and the lights it was resolved for.
Applied == answer.op = "apply_preset" /\ answer.raised = "none"

AppliedPreset == answer.presets[answer.preset]

Pair(state) == <<state.brightness, state.temperature>>

OverridePair(key) == <<AppliedPreset.per_light[key].brightness, AppliedPreset.per_light[key].temperature>>

GlobalPair == <<AppliedPreset.brightness, AppliedPreset.temperature>>

\* C15 as stated: the override keyed by the device id when the id is non-empty
\* and a key of per_light, otherwise the override keyed by the name when the
\* name is a key of per_light, otherwise the preset's global pair.
C15_ResolutionAsStated ==
    Applied =>
        \A i \in DOMAIN answer.states :
            Pair(answer.states[i]) =
                IF answer.lights[i].id # "" /\ answer.lights[i].id \in DOMAIN AppliedPreset.per_light
                THEN OverridePair(answer.lights[i].id)
                ELSE IF answer.lights[i].name \in DOMAIN AppliedPreset.per_light
                THEN OverridePair(answer.lights[i].name)
                ELSE GlobalPair

\* C15 (amended): the override keyed by the device id when the id is non-empty
\* and a key of per_light, otherwise the override keyed by the name when the
\* name is non-empty and a key of per_light, otherwise the preset's global
\* pair; always one whole pair from one of these sources.
C15_ResolutionOrder ==
    Applied =>
        \A i \in DOMAIN answer.states :
            /\ answer.states[i].on
            /\ Pair(answer.states[i]) =
                IF answer.lights[i].id # "" /\ answer.lights[i].id \in DOMAIN AppliedPreset.per_light
                THEN OverridePair(answer.lights[i].id)
                ELSE IF answer.lights[i].name # "" /\ answer.lights[i].name \in DOMAIN AppliedPreset.per_light
                THEN OverridePair(answer.lights[i].name)
                ELSE GlobalPair

\* C15 witness: webcam applied to the lights right (no id), "" and left (id
\* AA): right gets its name's pair, the nameless light the global pair, left
\* its id's pair although its name has a pair too.
C15_Witness ==
    /\ Applied
    /\ answer.preset = "webcam"
    /\ Len(answer.states) = 3
    /\ Pair(answer.states[1]) = <<47, 178>>
    /\ Pair(answer.states[2]) = <<32, 179>>
    /\ Pair(answer.states[3]) = <<18, 181>>

\* The preset names the user's config.toml declares.
UserPresetNames == IF Len(file) = 0 THEN {} ELSE DOMAIN file[1].presets

PresetLoads == {"load_config", "tray_presets", "panel_presets"}

\* C16: in every front-end, the resolved preset map has every built-in name
\* and every user preset name.
C16_BuiltinsAlwaysPresent ==
    (answer.op \in PresetLoads /\ answer.raised = "none") =>
        BuiltinNames \cup UserPresetNames \subseteq DOMAIN answer.presets

\* The lights load_config yields for the current file and network.
Configured == LoadConfig(file, mdns).lights

Unfiltered == ~answer.filter.given \/ Len(answer.filter.names) = 0

\* The positions of the configured lights the filter names.
Hits == {i \in DOMAIN Configured : \E j \in DOMAIN answer.filter.names : answer.filter.names[j] = Configured[i].name}

DeclaresLights == Len(file) > 0 /\ Len(file[1].lights) > 0

\* C18: load_config runs discovery exactly when the file is absent or declares
\* no light; declared lights are returned as declared; and when discovery
\* returns nothing the result is a configuration without lights that still
\* has the built-in presets.
C18_DiscoveryFallback ==
    answer.op = "load_config" =>
        /\ answer.probed <=> ~DeclaresLights
        /\ DeclaresLights =>
              /\ answer.raised = "none"
              /\ Len(answer.lights) = Len(file[1].lights)
              /\ \A i \in DOMAIN answer.lights : answer.lights[i].name = file[1].lights[i].name
        /\ (~DeclaresLights /\ ~mdns.raises /\ Len(mdns.lights) = 0) =>
              /\ answer.raised = "none"
              /\ Len(answer.lights) = 0
              /\ BuiltinNames \subseteq DOMAIN answer.presets

\* C18 witness: a config.toml with presets but no lights, nothing on the
\* network: load_config returned no lights and the presets.
C18_Witness ==
    /\ answer.op = "load_config"
    /\ Len(file) > 0
    /\ ~DeclaresLights
    /\ "webcam" \in UserPresetNames
    /\ ~mdns.raises
    /\ Len(mdns.lights) = 0
    /\ answer.probed
    /\ Len(answer.lights) = 0
    /\ "webcam" \in DOMAIN answer.presets

\* ---------------------------------------------------------------- discovery.py
\* One line of avahi-browse -rpt output, by what the loop reads of it: its
\* first character, its address family field, its number of ;-separated
\* fields, field 3 (with \032 replaced by a space) cut at the first " - ",
\* fields 7 and 8 as text, and the tokens of the TXT fields.
Line(lead, family, nparts, raw, host, port, txt) ==
    [lead |-> lead, family |-> family, nparts |-> nparts, raw |-> raw,
     host |-> host, port |-> port, txt |-> txt]

Token(key, val) == [key |-> key, val |-> val]

Lines ==
    {Line("=", "IPv4", 10, <<"Elgato Key Light", "Right">>, "10.0.0.2", "9123",
          <<Token("mf", "Elgato"), Token("id", "AA")>>),
     Line("=", "IPv4", 9, <<"Elgato Key Light", "left">>, "10.0.0.1", "9123", <<>>),
     Line("=", "IPv4", 10, <<"Elgato Key Light", "Desk ">>, "10.0.0.2", "9124",
          <<Token("id", "CC")>>),
     Line("=", "IPv4", 9, <<"left">>, "10.0.0.4", "9123", <<>>),
     Line("+", "IPv4", 6, <<"Elgato Key Light", "Right">>, "", "", <<>>),
     Line("=", "IPv4", 8, <<"Elgato Key Light", "left">>, "10.0.0.1", "", <<>>),
     Line("=", "IPv4", 9, <<"Ring Light">>, "10.0.0.3", "", <<>>),
     Line("=", "IPv6", 10, <<"Elgato Key Light", "Right">>, "fe80::2", "9123",
          <<Token("id", "AA")>>)}

RECURSIVE Outputs(_)
\* The outputs of at most n lines.
Outputs(n) ==
    IF n = 0 THEN {<<>>}
    ELSE Outputs(n - 1) \cup {Append(o, l) : o \in {x \in Outputs(n - 1) : Len(x) = n - 1}, l \in Lines}

\* How the subprocess ends: normally, or with FileNotFoundError,
\* TimeoutExpired, CalledProcessError or an undecodable output.
ProcOutcomes == {"ok", "missing", "timeout", "exit", "undecodable"}

\* int(parts[8]): the number, or nothing when int raises ValueError.
IntOf(str) ==
    CASE str = "9123" -> <<9123>>
      [] str = "9124" -> <<9124>>
      [] OTHER -> <<>>

\* str.strip and str.lower on the names of the model.
Strip(str) == IF str = "Desk " THEN "Desk" ELSE str

Lower(str) ==
    CASE str = "Right" -> "right"
      [] str = "Desk" -> "desk"
      [] str = "Ring Light" -> "ring light"
      [] OTHER -> str

\* The short name: what follows the first " - ", stripped, or the raw name
\* when there is no " - "; lower-cased when the light is built.
DerivedName(raw) == IF Len(raw) > 1 THEN Lower(Strip(raw[2])) ELSE Lower(raw[1])

\* The device id: the first TXT token that starts with id=, without the id=.
DeviceId(txt) ==
    IF \E i \in DOMAIN txt : txt[i].key = "id"
    THEN txt[CHOOSE i \in DOMAIN txt : txt[i].key = "id" /\ \A j \in 1..(i - 1) : txt[j].key # "id"].val
    ELSE ""

\* The derived names of the model in the order of Python's string comparison.
NameOrder == <<"desk", "left", "right", "ring light">>

KeyRank(name) == CHOOSE i \in DOMAIN NameOrder : NameOrder[i] = name

RECURSIVE SortByName(_)
SortByNameMutant(ls) == ls
\* lights.sort(key=lambda lc: lc.name): a stable sort by name.
SortByName(ls) ==
    IF Len(ls) = 0 THEN <<>>
    ELSE LET rest == SortByName(Tail(ls))
             k == Cardinality({i \in DOMAIN rest : KeyRank(rest[i].name) < KeyRank(Head(ls).name)})
         IN  SubSeq(rest, 1, k) \o <<Head(ls)>> \o SubSeq(rest, k + 1, Len(rest))

\* The loop skips a line that is not a resolved IPv4 record of 9 fields.
Skipped(line) == line.lead # "=" \/ line.family # "IPv4" \/ line.nparts < 9

DiscoveryInit ==
    /\ GuiIdle
    /\ OverlapIdle
    /\ EffectsIdle
    /\ ModelIdle
    /\ FrontIdle
    /\ ClientIdle
    /\ ConfigIdle
    /\ proc \in ProcOutcomes
    /\ out \in IF proc = "ok" THEN Outputs(MaxLines) ELSE {<<>>}
    /\ dpc = "idle"
    /\ idx = 0
    /\ seen = {}
    /\ found = <<>>
    /\ ret = Discovery(FALSE, <<>>)

\* check_output inside the try: any exception returns the empty list.
Browse ==
    /\ dpc = "idle"
    /\ IF proc = "ok"
       THEN dpc' = "loop" /\ ret' = ret
       ELSE dpc' = "done" /\ ret' = Discovery(FALSE, <<>>)
    /\ UNCHANGED <<proc, out, idx, seen, found, notDiscovery>>

\* One pass of the loop over out.splitlines(), which runs outside the try.
ParseLine ==
    /\ dpc = "loop"
    /\ idx < Len(out)
    /\ LET line == out[idx + 1]
       IN  IF Skipped(line)
           THEN idx' = idx + 1 /\ UNCHANGED <<dpc, seen, found, ret>>
           ELSE IF IntOf(line.port) = <<>>
           THEN /\ dpc' = "done"
                /\ ret' = Discovery(TRUE, <<>>)
                /\ UNCHANGED <<idx, seen, found>>
           ELSE IF line.host \in seen
           THEN idx' = idx + 1 /\ UNCHANGED <<dpc, seen, found, ret>>
           ELSE /\ idx' = idx + 1
                /\ seen' = seen \cup {line.host}
                /\ found' = Append(found, LightConfig(DerivedName(line.raw), line.host,
                                                      IntOf(line.port)[1], DeviceId(line.txt)))
                /\ UNCHANGED <<dpc, ret>>
    /\ UNCHANGED <<proc, out, notDiscovery>>

\* The loop is over: sort and return.
Return ==
    /\ dpc = "loop"
    /\ idx = Len(out)
    /\ dpc' = "done"
    /\ ret' = Discovery(FALSE, SortByName(found))
    /\ UNCHANGED <<proc, out, idx, seen, found, notDiscovery>>

DiscoveryNext ==
    \/ Browse
    \/ ParseLine
    \/ Return

DiscoverySpec == DiscoveryInit /\ [][DiscoveryNext]_vars

\* ---------------------------------------------------- claims on discovery
\* C19: discover_lights never raises, whatever the subprocess does and
\* whatever it prints; when the subprocess fails the result is the empty list.
C19_NeverRaises ==
    dpc = "done" =>
        /\ ~ret.raises
        /\ proc # "ok" => Len(ret.lights) = 0

Returned == dpc = "done" /\ proc = "ok" /\ ~ret.raises

\* The position of the first record of the output the loop accepts for a host.
FirstFor(host) ==
    CHOOSE k \in DOMAIN out :
        /\ ~Skipped(out[k]) /\ out[k].host = host
        /\ \A j \in 1..(k - 1) : Skipped(out[j]) \/ out[j].host # host

\* C20: the returned list has one entry for each host of an accepted record
\* and no two entries for a host, each entry is built from the first accepted
\* record of its host, and the names are in non-decreasing order.
C20_DedupedAndSorted ==
    Returned =>
        /\ \A i, j \in DOMAIN ret.lights : ret.lights[i].host = ret.lights[j].host => i = j
        /\ \A k \in DOMAIN out :
              ~Skipped(out[k]) => \E i \in DOMAIN ret.lights : ret.lights[i].host = out[k].host
        /\ \A i \in DOMAIN ret.lights :
              /\ \E k \in DOMAIN out : ~Skipped(out[k]) /\ out[k].host = ret.lights[i].host
              /\ ret.lights[i].name = DerivedName(out[FirstFor(ret.lights[i].host)].raw)
              /\ <<ret.lights[i].port>> = IntOf(out[FirstFor(ret.lights[i].host)].port)
        /\ \A i \in 1..(Len(ret.lights) - 1) :
              KeyRank(ret.lights[i].name) <= KeyRank(ret.lights[i + 1].name)

\* C20 witness: records for right (10.0.0.2), left (10.0.0.1) and desk (again
\* 10.0.0.2) returned left then right, desk dropped.
C20_Witness ==
    /\ Returned
    /\ Len(out) = 3
    /\ out[1].host = "10.0.0.2"
    /\ out[3].host = "10.0.0.2"
    /\ out[3].port = "9124"
    /\ Len(ret.lights) = 2
    /\ ret.lights[1].name = "left"
    /\ ret.lights[2].name = "right"
    /\ ret.lights[2].port = 9123

\* ------------------------------------------- further claims on the effects
Dimming == call.name = "dim_slowly" /\ call.n >= 1 /\ Len(lights) > 0 /\ Len(saved) = Len(lights)

\* C23: dim_slowly(target, steps) with steps >= 1 on at least one light
\* broadcasts on=true, the first light's snapshotted temperature and a
\* brightness of at least 3 every time; broadcast 1 has max(3, first light's
\* snapshotted brightness), broadcast steps+1 has max(3, target) and is the
\* last; every targeted light is sent the same values; and once the drive
\* phase has ended without a failure each light has been sent exactly steps+1
\* broadcasts, all of them before its restore.
C23_DimSlowlyBroadcasts ==
    Dimming =>
        /\ \A l \in Targets : SameDriveWrites(lights[1], l) /\ SameDriveWrites(l, lights[1])
        /\ \A l \in Targets : \A j \in 1..Len(log[l]) :
              log[l][j].phase = "drive" =>
                  /\ j = log[l][j].step + 1
                  /\ log[l][j].step <= call.n + 1
                  /\ log[l][j].state.on
                  /\ log[l][j].state.temperature = saved[1].temperature
                  /\ log[l][j].state.brightness >= 3
                  /\ log[l][j].step = 1 =>
                        log[l][j].state.brightness = Max(3, saved[1].brightness)
                  /\ log[l][j].step = call.n + 1 =>
                        log[l][j].state.brightness = Max(3, call.target)
        /\ (pc \in {"final_hold", "restore", "done"} /\ exc = "none") =>
              \A l \in Targets :
                  /\ Len(log[l]) >= call.n + 2
                  /\ log[l][call.n + 2].phase = "drive"

\* C23 witness: dim_slowly(target=0, steps=2) on two lights starting from
\* brightness 40 has sent 40, 20 and then the floor 3 to the second light.
C23_Witness ==
    /\ Dimming
    /\ call.n = 2
    /\ call.target = 0
    /\ Len(lights) = 2
    /\ pc = "final_hold"
    /\ saved[1].brightness = 40
    /\ log[lights[2]][2].state.brightness = 40
    /\ log[lights[2]][3].state.brightness = 20
    /\ log[lights[2]][4].state.brightness = 3

\* The brightness of the p-th broadcast of a pulse cycle, p in 1..38.
PulseBrightness(p) == IF p <= 19 THEN 10 + 5 * (p - 1) ELSE 100 - 5 * (p - 20)

NoLights == call.name # "none" /\ Len(lights) = 0 /\ ~UnknownMood

\* C29: an effect called with no lights never raises and never sends a
\* request; it is asleep between its empty broadcasts or has returned, and
\* dim_slowly returns at once.
C29_NoLightsNoRequests ==
    NoLights =>
        /\ raised = "none"
        /\ exc = "none"
        /\ NoRequests
        /\ pc \in {"hold", "done"}
        /\ call.name \in {"dim_slowly", "set_mood"} => pc = "done"

\* C29 witness: dim_slowly(steps=0) with no lights has returned.
C29_Witness ==
    /\ NoLights
    /\ call.name = "dim_slowly"
    /\ call.n = 0
    /\ pc = "done"
    /\ raised = "none"

\* C30: in the snapshot phase the get_state requests of all targeted lights
\* are issued together: while the snapshot is being taken every targeted
\* light has been sent its read.
C30_SnapshotConcurrent ==
    pc = "snapshot" => \A l \in Targets : Issued(l, "get", "snapshot") # <<>>

\* ----------------------------------------------- further claims on the client
\* The mutator has sent its write.
Wrote == kl.m.op \in ReadModifyWrite \cup {"turn_on"} /\ Len(sent) > 0

\* C26: a mutator sends one get_state and then at most one set_state, exactly
\* one of each when it returns; the state it writes has, in every field it
\* does not target, the value it read: toggle and turn_off keep brightness and
\* temperature, set_brightness and adjust_brightness keep on and temperature,
\* set_temperature keeps on and brightness, turn_on without arguments keeps
\* brightness and temperature and sets on.
C26_UntargetedFieldsKept ==
    kl.m.op \in ReadModifyWrite \cup {"turn_on"} =>
        /\ reads = 1
        /\ Len(sent) <= 1
        /\ Len(sent) = 1 <=> kl.pc \in {"put", "done"} /\ kl.state # NoState
        /\ (kl.pc = "done" /\ kl.raised = "none") => Len(sent) = 1
        /\ Wrote =>
              /\ kl.m.op \in {"toggle", "turn_off"} =>
                    /\ sent[1].brightness = ToApi(kl.state).brightness
                    /\ sent[1].temperature = ToApi(kl.state).temperature
              /\ kl.m.op \in {"set_brightness", "adjust_brightness"} =>
                    /\ sent[1].on = ToApi(kl.state).on
                    /\ sent[1].temperature = ToApi(kl.state).temperature
              /\ kl.m.op = "set_temperature" =>
                    /\ sent[1].on = ToApi(kl.state).on
                    /\ sent[1].brightness = ToApi(kl.state).brightness
              /\ (kl.m.op = "turn_on" /\ kl.m.b = <<>> /\ kl.m.t = <<>>) =>
                    /\ sent[1].on = 1
                    /\ sent[1].brightness = ToApi(kl.state).brightness
                    /\ sent[1].temperature = ToApi(kl.state).temperature

\* C26 witness: toggle read on, 40, 290 and wrote off, 40, 290.
C26_Witness ==
    /\ kl.m.op = "toggle"
    /\ kl.pc = "done"
    /\ kl.raised = "none"
    /\ reads = 1
    /\ kl.state = LightState(TRUE, 40, 290)
    /\ sent = <<[on |-> 0, brightness |-> 40, temperature |-> 290]>>

\* ------------------------------------------- models.py: temperature_kelvin
\* The temperatures a LightState carries.
Temperatures == 143..344

\* int() of a binary64 quotient differs from the exact integer quotient only
\* when rounding the quotient to 53 bits reaches the next integer.  A quotient
\* below 2^13 is rounded by at most 2^-40; the model lets it be rounded by as
\* much as 1 / FloatStep, which is more than the double ever is.
FloatStep == 1048576

TemperatureKelvinMutant(t) == (1000000 + t \div 2) \div t

\* LightState.temperature_kelvin: int(1_000_000 / self.temperature).
TemperatureKelvin(t) ==
    LET q == 1000000 \div t
        r == 1000000 % t
    IN  IF r # 0 /\ (t - r) * FloatStep <= t THEN q + 1 ELSE q

KelvinInit ==
    /\ GuiIdle
    /\ OverlapIdle
    /\ EffectsIdle
    /\ ClientIdle
    /\ ConfigIdle
    /\ DiscoveryIdle
    /\ FrontIdle
    /\ temp \in Temperatures
    /\ kelvin = <<>>

\* The property is read once.
ReadKelvin ==
    /\ kelvin = <<>>
    /\ kelvin' = <<TemperatureKelvin(temp)>>
    /\ UNCHANGED <<temp, notModel>>

KelvinNext == ReadKelvin

KelvinSpec == KelvinInit /\ [][KelvinNext]_vars

\* C25: for every temperature t in 143..344, temperature_kelvin is the
\* integer quotient of 1000000 by t: the largest k with k * t <= 1000000.
C25_KelvinIsQuotient ==
    kelvin # <<>> =>
        /\ kelvin[1] * temp <= 1000000
        /\ (kelvin[1] + 1) * temp > 1000000

\* C25 witness: the temperature 200 read as 5000 K.
C25_Witness == temp = 200 /\ kelvin = <<5000>>

\* ------------------------------------- cli.py, mcp_server.py and waybar.py
\* The commands that call one convenience mutator on each light in turn.
Mutators == {"on", "off", "toggle", "brightness", "temperature"}

\* The operations of the front ends: waybar has the status query only; flash
\* stands for the effect commands, which all have its shape.
FrontCommands ==
    {<<f, c>> : f \in {"cli", "mcp"}, c \in {"status", "preset", "flash"} \cup Mutators}
    \cup {<<"waybar", "status">>}

\* get_preset: the entry of the resolved table, None when there is none.
GetPreset(name) == IF name \in DOMAIN DefaultPresets THEN <<DefaultPresets[name]>> ELSE <<>>

CreatedMutant(cmd, name, n) == n
\* The number of clients the operation creates: preset looks the name up and
\* leaves before _get_clients when it is unknown.
Created(cmd, name, n) == IF cmd = "preset" /\ GetPreset(name) = <<>> THEN 0 ELSE n

CatchesMutant(cmd) == TRUE
CatchesNoneMutant(cmd) == FALSE
\* Only the status queries wrap each light's requests in try/except.
Catches(cmd) == cmd = "status"

AfterTryMutant(raising) == IF raising THEN "done" ELSE "closing"
\* Where control goes when the try block is left: the finally clause closes
\* the clients whether the block returned or raised.
AfterTry(raising) == "closing"

\* The first request a command sends to a light.
FirstPhase(cmd) == IF cmd = "preset" THEN "put" ELSE "get"

\* Whether the command collects a line for every light it has changed.
Echoes(front, cmd) == front = "cli" \/ cmd = "toggle"

Sent(light, op, ok) == [light |-> light, op |-> op, ok |-> ok]

Report(light, kind) == [light |-> light, kind |-> kind]

Reports(ls, kind) == [k \in DOMAIN ls |-> Report(ls[k], kind)]

\* What waybar prints from its two lists.
Tooltip(st, er) ==
    IF st = <<>> /\ er # <<>> THEN <<Report(0, "all_unreachable")>>
    ELSE Reports(st, "state") \o Reports(er, "error")

\* What the operation has reported when it is over.
FinalReport(c, res) ==
    IF c.front # "waybar" THEN res
    ELSE IF c.raised # "none" THEN <<Report(0, "err")>>
    ELSE Tooltip(c.states, c.errors)

\* The class waybar prints from its two lists: all() of no states is True.
CssClass(st, er) ==
    IF st = <<>> /\ er # <<>> THEN "error"
    ELSE IF \A k \in DOMAIN st : lit[st[k]] THEN "on"
    ELSE IF \E k \in DOMAIN st : lit[st[k]] THEN "mixed"
    ELSE "off"

\* The class printed when the operation is over; main prints "error" for an
\* exception.
FinalClass(c) ==
    IF c.front # "waybar" THEN ""
    ELSE IF c.raised # "none" THEN "error"
    ELSE CssClass(c.states, c.errors)

ConfigLists == {Sorted(S) : S \in SUBSET ConfiguredLights}

FrontInit ==
    /\ GuiIdle
    /\ OverlapIdle
    /\ EffectsIdle
    /\ ClientIdle
    /\ ConfigIdle
    /\ DiscoveryIdle
    /\ ModelIdle
    /\ fe = NoCommand
    /\ configs \in ConfigLists
    /\ clients = <<>>
    /\ traffic = <<>>
    /\ room = [l \in ConfiguredLights |-> "old"]
    /\ results = <<>>
    /\ lit = [l \in ConfiguredLights |-> FALSE]
    /\ css = ""

\* The loop moves on to light k, or the try block is left after the last one.
Onward(c, k) ==
    IF k <= Len(clients)
    THEN [c EXCEPT !.i = k, !.phase = FirstPhase(c.cmd)]
    ELSE [c EXCEPT !.pc = AfterTry(FALSE), !.phase = "none", !.j = 1]

\* The exception leaves the try block; an MCP tool then returns no lines.
Raise(c) == [c EXCEPT !.raised = "UnreachableError", !.pc = AfterTry(TRUE), !.phase = "none", !.j = 1]

\* A request to light l failed inside the loop: a status query notes the
\* light and goes on, any other command lets the exception through.
Failure(l) ==
    IF Catches(fe.cmd)
    THEN IF fe.front = "waybar"
         THEN /\ fe' = Onward([fe EXCEPT !.errors = Append(@, l)], fe.i + 1)
              /\ results' = results
         ELSE /\ fe' = Onward(fe, fe.i + 1)
              /\ results' = Append(results, Report(l, "error"))
    ELSE /\ fe' = Raise(fe)
         /\ results' = IF fe.front = "mcp" THEN <<>> ELSE results

\* The operation starts: the preset lookup, _get_clients, and whatever runs
\* before the first await.
FECall(front, cmd, name) ==
    /\ fe.pc = "idle"
    /\ LET n == Created(cmd, name, Len(configs))
           c == Command(front, cmd, name, "idle", "none", 0, 0, "none", <<>>, <<>>)
       IN  /\ clients' = [k \in 1..n |-> "open"]
           /\ IF cmd = "preset" /\ GetPreset(name) = <<>>
              THEN /\ fe' = [c EXCEPT !.pc = "done", !.raised = IF front = "cli" THEN "exit_1" ELSE "none"]
                   /\ results' = <<Report(0, "unknown_preset")>>
              ELSE IF n = 0
              THEN /\ fe' = [c EXCEPT !.pc = "done"]
                   /\ results' = FinalReport(c, <<>>)
              ELSE IF cmd = "flash"
              THEN /\ fe' = [c EXCEPT !.pc = "effect"]
                   /\ results' = <<>>
              ELSE /\ fe' = [c EXCEPT !.pc = "loop", !.phase = FirstPhase(cmd), !.i = 1]
                   /\ results' = <<>>
           /\ css' = IF n = 0 THEN FinalClass(c) ELSE css
    /\ UNCHANGED <<configs, traffic, room, lit, notFront>>

\* get_state on the current light completes.
FEGet(ok, on) ==
    /\ fe.pc = "loop"
    /\ fe.phase = "get"
    /\ on => ok /\ fe.front = "waybar"
    /\ lit' = [lit EXCEPT ![configs[fe.i]] = on]
    /\ LET l == configs[fe.i]
       IN  /\ traffic' = Append(traffic, Sent(l, "get", ok))
           /\ IF ~ok THEN Failure(l)
              ELSE IF fe.front = "waybar"
              THEN /\ fe' = Onward([fe EXCEPT !.states = Append(@, l)], fe.i + 1)
                   /\ results' = results
              ELSE /\ fe' = [fe EXCEPT !.phase = IF fe.cmd = "status" THEN "info" ELSE "put"]
                   /\ results' = results
    /\ UNCHANGED <<configs, clients, room, css, notFront>>

\* get_info on the current light completes (status of cli.py and mcp_server.py).
FEInfo(ok) ==
    /\ fe.pc = "loop"
    /\ fe.phase = "info"
    /\ LET l == configs[fe.i]
       IN  /\ traffic' = Append(traffic, Sent(l, "info", ok))
           /\ IF ~ok THEN Failure(l)
              ELSE /\ fe' = Onward(fe, fe.i + 1)
                   /\ results' = Append(results, Report(l, "state"))
    /\ UNCHANGED <<configs, clients, room, lit, css, notFront>>

\* set_state on the current light completes; a write that failed may still
\* have reached the lamp.
FEPut(ok, applied) ==
    /\ fe.pc = "loop"
    /\ fe.phase = "put"
    /\ ok => applied
    /\ LET l == configs[fe.i]
       IN  /\ traffic' = Append(traffic, Sent(l, "put", ok))
           /\ room' = [room EXCEPT ![l] = IF applied THEN "new" ELSE @]
           /\ IF ~ok THEN Failure(l)
              ELSE /\ fe' = Onward(fe, fe.i + 1)
                   /\ results' = IF Echoes(fe.front, fe.cmd) THEN Append(results, Report(l, "ok")) ELSE results
    /\ UNCHANGED <<configs, clients, lit, css, notFront>>

\* The effect the command awaits returns or raises.
FEEffect(ok) ==
    /\ fe.pc = "effect"
    /\ fe' = IF ok THEN [fe EXCEPT !.pc = AfterTry(FALSE), !.j = 1] ELSE Raise(fe)
    /\ UNCHANGED <<configs, clients, traffic, room, results, lit, css, notFront>>

\* _close_all closes the next client; after the last one the operation returns
\* or the exception goes on to the caller.
FEClose ==
    /\ fe.pc = "closing"
    /\ clients' = [clients EXCEPT ![fe.j] = "closed"]
    /\ IF fe.j < Len(clients)
       THEN /\ fe' = [fe EXCEPT !.j = @ + 1]
            /\ results' = results
       ELSE /\ fe' = [fe EXCEPT !.pc = "done"]
            /\ results' = FinalReport(fe, results)
    /\ css' = IF fe.j < Len(clients) THEN css ELSE FinalClass(fe)
    /\ UNCHANGED <<configs, traffic, room, lit, notFront>>

FrontNext ==
    \/ \E fc \in FrontCommands :
         \E name \in (IF fc[2] = "preset" THEN PresetArgs ELSE {""}) : FECall(fc[1], fc[2], name)
    \/ \E ok \in BOOLEAN, on \in BOOLEAN : FEGet(ok, on)
    \/ \E ok \in BOOLEAN : FEInfo(ok)
    \/ \E ok \in BOOLEAN, applied \in BOOLEAN : FEPut(ok, applied)
    \/ \E ok \in BOOLEAN : FEEffect(ok)
    \/ FEClose

FrontendSpec == FrontInit /\ [][FrontNext]_vars

\* ------------------------------------------------ claims on the front ends
\* The place of light l in the configuration order.
Pos(l) == CHOOSE k \in DOMAIN configs : configs[k] = l

\* A request to light l failed.
FailedAt(l) == \E a \in DOMAIN traffic : traffic[a].light = l /\ ~traffic[a].ok

\* Light l was sent a get_state.
Queried(l) == \E a \in DOMAIN traffic : traffic[a].light = l /\ traffic[a].op = "get"

AllClosed == \A k \in DOMAIN clients : clients[k] = "closed"

\* C21: when a front-end operation has returned or raised, every client it
\* created is closed.
C21_ClientsClosed == fe.pc = "done" => AllClosed

\* C21 witness: a command over three lights raised and its three clients are
\* closed.
C21_Witness ==
    /\ fe.pc = "done"
    /\ fe.raised = "UnreachableError"
    /\ Len(clients) = 3
    /\ AllClosed

StatusOver == fe.cmd = "status" /\ fe.pc = "done"

\* One line per configured light, in configuration order.
InOrder == [k \in DOMAIN configs |-> Report(configs[k], IF FailedAt(configs[k]) THEN "error" ELSE "state")]

\* Reachable lights first, failing lights after them.
Grouped ==
    Reports(SelectSeq(configs, LAMBDA l : ~FailedAt(l)), "state")
    \o Reports(SelectSeq(configs, LAMBDA l : FailedAt(l)), "error")

\* C22 as stated: a status query asks every configured light and reports
\* each one, with its state or with an error entry, in configuration order.
C22_ReportedInOrder ==
    StatusOver =>
        /\ fe.raised = "none"
        /\ \A k \in DOMAIN configs : Queried(configs[k])
        /\ results = InOrder

\* C22: a status query asks every configured light whatever fails; the CLI
\* and the MCP server report each light in configuration order, with its
\* state or with an error entry; waybar reports the reachable lights in
\* configuration order and then the failing ones, and only that all lights
\* are unreachable when every light fails.
C22_EveryLightReported ==
    StatusOver =>
        /\ fe.raised = "none"
        /\ \A k \in DOMAIN configs : Queried(configs[k])
        /\ fe.front # "waybar" => results = InOrder
        /\ fe.front = "waybar" =>
              results = IF configs # <<>> /\ \A k \in DOMAIN configs : FailedAt(configs[k])
                        THEN <<Report(0, "all_unreachable")>>
                        ELSE Grouped

\* C22 witness: waybar over three lights, the first of which failed.
C22_Witness ==
    /\ StatusOver
    /\ fe.front = "waybar"
    /\ configs = <<1, 2, 3>>
    /\ results = <<Report(2, "state"), Report(3, "state"), Report(1, "error")>>

UnknownPreset == fe.cmd = "preset" /\ GetPreset(fe.name) = <<>>

\* C27: a mutating command sends its requests light by light in configuration
\* order and never repeats one; a failed request is the last request sent and
\* fails the command, the lights before the failing one hold their new state
\* and the lights after it were sent nothing.
C27_FirstFailureAborts ==
    fe.cmd \in Mutators \cup {"preset"} =>
        /\ \A a \in DOMAIN traffic, b \in DOMAIN traffic :
              a < b =>
                 /\ Pos(traffic[a].light) <= Pos(traffic[b].light)
                 /\ traffic[a].light = traffic[b].light => traffic[a].op # traffic[b].op
        /\ \A a \in DOMAIN traffic :
              ~traffic[a].ok =>
                 /\ a = Len(traffic)
                 /\ fe.raised = "UnreachableError"
                 /\ fe.pc \in {"closing", "done"}
                 /\ \A k \in DOMAIN configs :
                       /\ k < Pos(traffic[a].light) => room[configs[k]] = "new"
                       /\ k > Pos(traffic[a].light) =>
                             /\ room[configs[k]] = "old"
                             /\ \A c \in DOMAIN traffic : traffic[c].light # configs[k]
        /\ (fe.pc = "done" /\ fe.raised = "none" /\ ~UnknownPreset) =>
              \A k \in DOMAIN configs : room[configs[k]] = "new"

\* C27 witness: on over three lights; the write to the second failed, the
\* first is on and the third was sent nothing.
C27_Witness ==
    /\ fe.cmd = "on"
    /\ fe.pc = "done"
    /\ fe.raised = "UnreachableError"
    /\ configs = <<1, 2, 3>>
    /\ traffic = <<Sent(1, "get", TRUE), Sent(1, "put", TRUE), Sent(2, "get", TRUE), Sent(2, "put", FALSE)>>
    /\ room[1] = "new"
    /\ room[3] = "old"

\* C28: a preset command with an unknown name is over at once: the error is
\* reported (the CLI exits with status 1), no client exists and no request
\* was sent.
C28_UnknownPresetTouchesNothing ==
    UnknownPreset =>
        /\ fe.pc = "done"
        /\ results = <<Report(0, "unknown_preset")>>
        /\ fe.front = "cli" => fe.raised = "exit_1"
        /\ clients = <<>>
        /\ traffic = <<>>
        /\ \A l \in ConfiguredLights : room[l] = "old"

\* C28 witness: the CLI was asked for the preset nope with three lights
\* configured.
C28_Witness ==
    /\ UnknownPreset
    /\ fe.front = "cli"
    /\ fe.name = "nope"
    /\ Len(configs) = 3
    /\ fe.raised = "exit_1"

\* ------------------------------------------ stray writes of a failed drive
\* The restore write to light l has been sent and has completed.
RestoreCompleted(l) ==
    \E j \in 1..Len(log[l]) : log[l][j].phase = "restore" /\ log[l][j] \notin inflight

\* C33: once a light's restore write has completed, nothing the effect sent
\* changes the light again: the restore write is the last write it receives.
C33_RestoreIsLastWrite ==
    [][\A l \in Lights : RestoreCompleted(l) => device'[l] = device[l]]_vars

\* ------------------------------------------------------- waybar's class
WaybarOver == fe.front = "waybar" /\ fe.pc = "done"

\* C36: waybar prints the class on only if it read at least one light and
\* every light it read is on; it prints error exactly when a light is
\* configured and none could be read; with no light configured it does not
\* print on.
C36_ClassOnNeedsALight ==
    WaybarOver =>
        /\ css = "on" => (fe.states # <<>> /\ \A k \in DOMAIN fe.states : lit[fe.states[k]])
        /\ css = "error" <=> (configs # <<>> /\ fe.states = <<>>)
        /\ configs = <<>> => css # "on"

\* ------------------------------------- two effects running at the same time
\* The effect calls a coroutine may make: flash_lights and alert_flash.
OverlapCalls ==
    {Call("flash", n, 0, "", "mcp") : n \in 0..MaxTimes}
    \cup {Call("alert", n, 0, "", "mcp") : n \in 0..MaxTimes}

OverlapInit ==
    /\ GuiIdle
    /\ EffectsIdle
    /\ ClientIdle
    /\ ConfigIdle
    /\ DiscoveryIdle
    /\ ModelIdle
    /\ FrontIdle
    /\ bulb \in InitStates
    /\ origin = bulb
    /\ tasks = [t \in Coroutines |-> Task(NoCall, "idle", <<>>, 0)]
    /\ overlap = FALSE

\* Where a coroutine goes after its broadcast k - 1: the next broadcast, or
\* the finally block when the loop is over.
AfterStep(tk, k) ==
    IF k <= NumSteps(tk.call, tk.saved)
    THEN [tk EXCEPT !.pc = "drive", !.k = k]
    ELSE [tk EXCEPT !.pc = "restore", !.k = k]

\* The tool call starts the effect: _save_states sends its get_state.
StartEffect(t, c) ==
    /\ tasks[t].pc = "idle"
    /\ tasks' = [tasks EXCEPT ![t] = Task(c, "snapshot", <<>>, 0)]
    /\ overlap' = (overlap \/ \E u \in Coroutines \ {t} : tasks[u].pc \notin {"idle", "done"})
    /\ UNCHANGED <<bulb, origin, notOverlap>>

\* get_state returns what the light holds now.
TaskSnapshot(t) ==
    /\ tasks[t].pc = "snapshot"
    /\ tasks' = [tasks EXCEPT ![t] = AfterStep([tasks[t] EXCEPT !.saved = <<FromApi(bulb)>>], 1)]
    /\ UNCHANGED <<bulb, origin, overlap, notOverlap>>

\* The set_state of the current broadcast reaches the light.
TaskDrive(t) ==
    /\ tasks[t].pc = "drive"
    /\ bulb' = ToApi(StepAt(tasks[t].call, tasks[t].saved, tasks[t].k))
    /\ tasks' = [tasks EXCEPT ![t].pc = "hold"]
    /\ UNCHANGED <<origin, overlap, notOverlap>>

\* The sleep after the broadcast ends.
TaskSleep(t) ==
    /\ tasks[t].pc = "hold"
    /\ tasks' = [tasks EXCEPT ![t] = AfterStep(tasks[t], tasks[t].k + 1)]
    /\ UNCHANGED <<bulb, origin, overlap, notOverlap>>

\* _restore_states writes the snapshot back and the effect returns.
TaskRestore(t) ==
    /\ tasks[t].pc = "restore"
    /\ bulb' = ToApi(tasks[t].saved[1])
    /\ tasks' = [tasks EXCEPT ![t].pc = "done"]
    /\ UNCHANGED <<origin, overlap, notOverlap>>

OverlapNext ==
    \/ \E t \in Coroutines, c \in OverlapCalls : StartEffect(t, c)
    \/ \E t \in Coroutines : TaskSnapshot(t)
    \/ \E t \in Coroutines : TaskDrive(t)
    \/ \E t \in Coroutines : TaskSleep(t)
    \/ \E t \in Coroutines : TaskRestore(t)

OverlapSpec == OverlapInit /\ [][OverlapNext]_vars

\* C34: when two effects whose lifetimes overlapped have both returned, the
\* light holds the state it had before the first of them started.
C34_OverlapRestoresOrigin ==
    (overlap /\ \A t \in Coroutines : tasks[t].pc = "done") => bulb = origin

\* ------------------------------------------- tray.py and panel.py: LightControl
MaxChanges == 2         \* user changes made to the control
MaxPolls == 1           \* refreshes of the control from the lamp

\* The 150 ms of the debounce timer, in steps of 50 ms.
DebounceTicks == 3

\* What the handlers work on: the control, GLib's pending sources and the
\* number of sources created.
Gtk(c, src, n) == [c |-> c, src |-> src, n |-> n]

\* Gtk.Range.set_value keeps the value inside the range of the scale.
ClampScale(v, lo, hi) == Max(lo, Min(hi, v))

\* The current_* fields of a control.
Values(c) == [on |-> c.current_on, brightness |-> c.current_brightness, temperature |-> c.current_temperature]

ChecksFlagMutant(a, handler) == FALSE
\* Whether the handler returns at once while _updating_from_api is set:
\* _on_slider_changed does in both applications, _on_power_toggle only in
\* tray.py.
ChecksFlag(a, handler) == handler = "slider" \/ a = "tray"

\* _schedule_update: the pending source is removed and a new one is added.
ScheduleUpdate(g) ==
    Gtk([g.c EXCEPT !.debounce = g.n + 1],
        {x \in g.src : x.id # g.c.debounce} \cup {[id |-> g.n + 1, left |-> DebounceTicks]},
        g.n + 1)

\* _on_power_toggle(switch, state).
OnPowerToggle(a, g, state) ==
    IF ChecksFlag(a, "toggle") /\ g.c.updating THEN g
    ELSE ScheduleUpdate(Gtk([g.c EXCEPT !.current_on = IF state THEN 1 ELSE 0], g.src, g.n))

\* Gtk.Switch.set_active: state-set is emitted when the position changes.
SetActive(a, g, on) ==
    IF g.c.switch = on THEN g
    ELSE OnPowerToggle(a, Gtk([g.c EXCEPT !.switch = on], g.src, g.n), on)

\* The branch of _on_slider_changed that turns the control on.
TurnOnWhileSliding(a, g) ==
    IF g.c.current_on # 0 THEN g
    ELSE LET h == SetActive(a, Gtk([g.c EXCEPT !.current_on = 1, !.updating = TRUE], g.src, g.n), TRUE)
         IN  Gtk([h.c EXCEPT !.updating = FALSE], h.src, h.n)

\* _on_slider_changed(scale).
OnSliderChanged(a, g) ==
    IF ChecksFlag(a, "slider") /\ g.c.updating THEN g
    ELSE ScheduleUpdate(TurnOnWhileSliding(a,
            Gtk([g.c EXCEPT !.current_brightness = g.c.brightness_scale,
                            !.current_temperature = g.c.temp_scale], g.src, g.n)))

\* Gtk.Range.set_value on the brightness scale (3..100): value-changed is
\* emitted when the value changes.
SetBrightnessScale(a, g, v) ==
    IF g.c.brightness_scale = ClampScale(v, 3, 100) THEN g
    ELSE OnSliderChanged(a, Gtk([g.c EXCEPT !.brightness_scale = ClampScale(v, 3, 100)], g.src, g.n))

\* Gtk.Range.set_value on the temperature scale (143..344).
SetTempScale(a, g, v) ==
    IF g.c.temp_scale = ClampScale(v, 143, 344) THEN g
    ELSE OnSliderChanged(a, Gtk([g.c EXCEPT !.temp_scale = ClampScale(v, 143, 344)], g.src, g.n))

\* LightControl.refresh of tray.py, and the body of set_values of panel.py.
Refresh(a, g, brightness, temperature, on) ==
    LET g1 == Gtk([g.c EXCEPT !.updating = TRUE,
                              !.current_on = IF on THEN 1 ELSE 0,
                              !.current_brightness = brightness,
                              !.current_temperature = temperature], g.src, g.n)
        g2 == SetActive(a, g1, on)
        g3 == SetBrightnessScale(a, g2, brightness)
        g4 == SetTempScale(a, g3, temperature)
    IN  Gtk([g4.c EXCEPT !.updating = FALSE], g4.src, g4.n)

\* set_values: the values of a preset are shown and sent.
SetValues(a, g, brightness, temperature, on) ==
    ScheduleUpdate(Refresh(a, g, brightness, temperature, on))

\* LightControl.__init__ of panel.py after a successful read of the lamp.
ControlFor(data) ==
    Control(data.on, data.brightness, data.temperature, data.on # 0,
            ClampScale(data.brightness, 3, 100), ClampScale(data.temperature, 143, 344), FALSE, 0)

\* Where the user can put the brightness and the temperature scale.
SlideBrightness == {40, 80}

SlideTemperature == {180, 290}

\* The presets the user can click: brightness, temperature, on.
PresetClicks == {<<100, 200, TRUE>>, <<DefaultBrightness, DefaultTemperature, FALSE>>}

GuiInit ==
    /\ EffectsIdle
    /\ ClientIdle
    /\ ConfigIdle
    /\ DiscoveryIdle
    /\ ModelIdle
    /\ FrontIdle
    /\ OverlapIdle
    /\ gui \in {"tray", "panel"}
    /\ fixture \in InitStates
    /\ ctrl \in (IF gui = "tray" THEN {NewControl} ELSE {NewControl, ControlFor(fixture)})
    /\ sources = {}
    /\ nsrc = 0
    /\ puts = <<>>
    /\ want = <<>>
    /\ wants = <<>>
    /\ bursts = 0
    /\ polls = 0
    /\ changes = 0

\* The handler of a user change has run and left g.
Changed(g) ==
    /\ changes < MaxChanges
    /\ ctrl' = g.c
    /\ sources' = g.src
    /\ nsrc' = g.n
    /\ changes' = changes + 1
    /\ bursts' = IF sources = {} THEN bursts + 1 ELSE bursts
    /\ want' = <<Values(g.c)>>
    /\ UNCHANGED <<gui, puts, fixture, wants, polls, notGui>>

\* The user flips the power switch.
UserToggle == Changed(SetActive(gui, Gtk(ctrl, sources, nsrc), ~ctrl.switch))

\* The user drags the brightness slider to v.
UserSlideBrightness(v) ==
    /\ v # ctrl.brightness_scale
    /\ Changed(SetBrightnessScale(gui, Gtk(ctrl, sources, nsrc), v))

\* The user drags the temperature slider to v.
UserSlideTemperature(v) ==
    /\ v # ctrl.temp_scale
    /\ Changed(SetTempScale(gui, Gtk(ctrl, sources, nsrc), v))

\* The user clicks a preset.
ClickPreset(p) == Changed(SetValues(gui, Gtk(ctrl, sources, nsrc), p[1], p[2], p[3]))

\* 50 ms pass while no timer is due.
Tick ==
    /\ sources # {}
    /\ \A x \in sources : x.left > 0
    /\ sources' = {[id |-> x.id, left |-> x.left - 1] : x \in sources}
    /\ UNCHANGED <<gui, ctrl, nsrc, puts, fixture, want, wants, bursts, polls, changes, notGui>>

\* A due timer runs _send_update; an exception of the PUT is swallowed.
Fire(x, ok, applied) ==
    /\ x \in sources
    /\ x.left = 0
    /\ ok => applied
    /\ ctrl' = [ctrl EXCEPT !.debounce = 0]
    /\ sources' = sources \ {x}
    /\ puts' = Append(puts, Values(ctrl))
    /\ fixture' = IF applied THEN Values(ctrl) ELSE fixture
    /\ wants' = Append(wants, want)
    /\ want' = <<>>
    /\ UNCHANGED <<gui, nsrc, bursts, polls, changes, notGui>>

\* The control is refreshed from the lamp, or left alone when the read fails.
RefreshFromLamp(ok) ==
    /\ gui = "tray"
    /\ polls < MaxPolls
    /\ polls' = polls + 1
    /\ LET g == IF ok THEN Refresh(gui, Gtk(ctrl, sources, nsrc), fixture.brightness, fixture.temperature, fixture.on # 0)
                ELSE Gtk(ctrl, sources, nsrc)
       IN  /\ ctrl' = g.c
           /\ sources' = g.src
           /\ nsrc' = g.n
    /\ UNCHANGED <<gui, puts, fixture, want, wants, bursts, changes, notGui>>

\* _poll_status, from its timers.
PollStatus(ok) == RefreshFromLamp(ok)

GuiNext ==
    \/ UserToggle
    \/ \E v \in SlideBrightness : UserSlideBrightness(v)
    \/ \E v \in SlideTemperature : UserSlideTemperature(v)
    \/ \E p \in PresetClicks : ClickPreset(p)
    \/ Tick
    \/ \E x \in sources, ok \in BOOLEAN, applied \in BOOLEAN : Fire(x, ok, applied)
    \/ \E ok \in BOOLEAN : PollStatus(ok)

GuiSpec == GuiInit /\ [][GuiNext]_vars

\* ------------------------------------------------ claims on LightControl
\* C31: at most one debounce timer is pending; every burst of changes made
\* while a timer is pending ends in exactly one PUT, and each PUT carries the
\* values the control held after the last change before it.
C31_DebounceSendsLastChange ==
    /\ Cardinality(sources) <= 1
    /\ Len(puts) + Cardinality(sources) = bursts
    /\ \A k \in DOMAIN puts : wants[k] = <<puts[k]>>

\* What refresh shows and caches for the wire state data.
Shows(c, data) ==
    /\ Values(c) = [on |-> IF data.on # 0 THEN 1 ELSE 0, brightness |-> data.brightness, temperature |-> data.temperature]
    /\ c.switch = (data.on # 0)
    /\ c.brightness_scale = ClampScale(data.brightness, 3, 100)
    /\ c.temp_scale = ClampScale(data.temperature, 143, 344)

\* C32: in the tray application a refresh from the lamp leaves the pending
\* timers, _debounce_id and the PUTs sent as they are, and either the read
\* failed and the control is untouched or the control caches and shows the
\* lamp's values.
C32_RefreshSendsNothing ==
    [][(gui = "tray" /\ polls' = polls + 1) =>
          /\ sources' = sources
          /\ nsrc' = nsrc
          /\ puts' = puts
          /\ ctrl'.debounce = ctrl.debounce
          /\ ~ctrl'.updating
          /\ ctrl' = ctrl \/ Shows(ctrl', fixture)]_vars

\* C32 witness: the first refresh moved the switch and both sliders of a new
\* control and no timer is pending.
C32_Witness ==
    /\ gui = "tray"
    /\ polls = 1
    /\ changes = 0
    /\ ctrl.switch
    /\ ctrl.brightness_scale = 40
    /\ ctrl.temp_scale = 290
    /\ sources = {}
    /\ puts = <<>>

\* C35: in the tray application, while a user change waits for its debounced
\* send the control holds the user's values, whatever refresh has run since.
C35_PendingChangeSurvivesRefresh ==
    (gui = "tray" /\ sources # {} /\ want # <<>>) => Values(ctrl) = want[1]

====
